---- MODULE Spec2Model ----
(***************************************************************************)
(* A model of the MiniMark minification pipeline (src/src/minimark.py).   *)
(*                                                                         *)
(* A text is a sequence of characters, each character a one-character      *)
(* string.  Every regular-expression substitution of the source is an      *)
(* operator that scans the text the way Python's re.sub does: leftmost     *)
(* match first, greedy quantifiers, scanning resumed after the match.      *)
(* The minifier object is the state machine: its tables are set by         *)
(* __init__, a call of minify walks through the four "if" statements of    *)
(* the method one at a time, and returns.                                  *)
(***************************************************************************)
EXTENDS Integers, Sequences, FiniteSets, TLC

VARIABLES
    stopwords,        \* self.stopwords
    filler_patterns,  \* self.filler_patterns
    preserve_terms,   \* self.preserve_terms
    pc,               \* position inside minify: "idle", 1..4 (the four ifs), "done"
    text,             \* minify's parameter text
    strategies,       \* minify's parameter strategies (a list)
    result,           \* minify's local variable result
    trace,            \* the stages invoked so far by the current call, in order
    words,            \* replace_synonyms' local variable words
    replaced_words,   \* replace_synonyms' local variable replaced_words
    consulted,        \* the words handed to wordnet.synsets by the current call
    returned,         \* the call that returned last: its arguments and its value
    threads,          \* the frames of the calls of minify made from several threads
    validator,        \* MiniMarkBenchmark: self.validator
    constructions,    \* the number of SemanticValidator objects constructed so far
    calls,            \* the calls of benchmark_file made so far, the one under way last
    bench_pc,         \* position inside benchmark_file
    original_text,    \* benchmark_file's local variable original_text
    minified_text,    \* benchmark_file's local variable minified_text
    strategy_index,   \* position of the loop over STRATEGY_CONFIGS
    results,          \* benchmark_file's local variable results
    dir_pc,           \* position inside benchmark_directory
    md_files,         \* benchmark_directory's local variable md_files
    next_file,        \* position of the loop over md_files
    validate_all,     \* benchmark_directory's parameter validate_semantics
    all_results       \* benchmark_directory's local variable all_results

vars == <<stopwords, filler_patterns, preserve_terms, pc, text, strategies,
          result, trace, words, replaced_words, consulted, returned, threads,
          validator, constructions, calls, bench_pc, original_text,
          minified_text, strategy_index, results, dir_pc, md_files,
          next_file, validate_all, all_results>>

----------------------------------------------------------------------------
(* Characters and character classes of Python's re and str.                *)

LowerLetters ==
    {"a","b","c","d","e","f","g","h","i","j","k","l","m",
     "n","o","p","q","r","s","t","u","v","w","x","y","z"}

UpperLetters ==
    {"A","B","C","D","E","F","G","H","I","J","K","L","M",
     "N","O","P","Q","R","S","T","U","V","W","X","Y","Z"}

Digits == {"0","1","2","3","4","5","6","7","8","9"}

UpperToLower ==
    [c \in UpperLetters |->
        CASE c = "A" -> "a" [] c = "B" -> "b" [] c = "C" -> "c" [] c = "D" -> "d"
          [] c = "E" -> "e" [] c = "F" -> "f" [] c = "G" -> "g" [] c = "H" -> "h"
          [] c = "I" -> "i" [] c = "J" -> "j" [] c = "K" -> "k" [] c = "L" -> "l"
          [] c = "M" -> "m" [] c = "N" -> "n" [] c = "O" -> "o" [] c = "P" -> "p"
          [] c = "Q" -> "q" [] c = "R" -> "r" [] c = "S" -> "s" [] c = "T" -> "t"
          [] c = "U" -> "u" [] c = "V" -> "v" [] c = "W" -> "w" [] c = "X" -> "x"
          [] c = "Y" -> "y" [] c = "Z" -> "z"]

\* str.lower() on one character
LowerChar(c) == IF c \in UpperLetters THEN UpperToLower[c] ELSE c

\* str.lower()
Lower(s) == [i \in 1..Len(s) |-> LowerChar(s[i])]

\* the whitespace characters of the texts
Whitespace == {" ", "\n", "\t"}

\* \s of re, and the characters str.strip() removes
IsSpace(c) == c \in Whitespace

\* the word characters of the texts
WordChars == LowerLetters \cup UpperLetters \cup Digits \cup {"_"}

\* \w of re
IsWordChar(c) == c \in WordChars

\* \d of re
IsDigit(c) == c \in Digits

\* one character of str.isalnum()
IsAlnumChar(c) == c \in LowerLetters \cup UpperLetters \cup Digits

\* str.isalnum(): non-empty and every character alphanumeric
IsAlnum(s) == Len(s) > 0 /\ \A i \in 1..Len(s) : IsAlnumChar(s[i])

\* The backtick cannot be written inside a TLA+ string; this atom stands for it.
Backtick == "BACKTICK"

\* the character at position i, or "" outside the text
At(s, i) == IF i >= 1 /\ i <= Len(s) THEN s[i] ELSE ""

\* s[i..j-1], Python's s[i:j] with 1-based i and exclusive j
Slice(s, i, j) == SubSeq(s, i, j - 1)

\* s[::-1]
Reverse(s) == [i \in 1..Len(s) |-> s[Len(s) + 1 - i]]

\* the least element of a non-empty set of positions
Least(S) == CHOOSE x \in S : \A y \in S : x <= y

\* the greatest element of a non-empty set of positions
Greatest(S) == CHOOSE x \in S : \A y \in S : x >= y

\* [chars]* from i: the first position at or after i whose character is not
\* in chars (Len(s)+1 if there is none), where a greedy run of them ends
RunEnd(s, i, chars) ==
    LET n == Len(s)
    IN  IF i > n THEN n + 1
        ELSE CHOOSE j \in i..(n + 1) :
                 /\ j = n + 1 \/ s[j] \notin chars
                 /\ \A k \in i..(j - 1) : s[k] \in chars

\* [^chars]* from i: the first position at or after i whose character is in
\* chars (Len(s)+1 if there is none)
RunEndExcept(s, i, chars) ==
    LET n == Len(s)
    IN  IF i > n THEN n + 1
        ELSE CHOOSE j \in i..(n + 1) :
                 /\ j = n + 1 \/ s[j] \in chars
                 /\ \A k \in i..(j - 1) : s[k] \notin chars

\* ^ of re under re.MULTILINE: the start of the text or just after a newline
AtLineStart(s, i) == i = 1 \/ At(s, i - 1) = "\n"

\* $ of re under re.MULTILINE: the end of the text or just before a newline
AtLineEnd(s, i) == i = Len(s) + 1 \/ At(s, i) = "\n"

\* \b of re: exactly one of the two neighbouring characters is a word character
AtWordBoundary(s, i) == IsWordChar(At(s, i - 1)) # IsWordChar(At(s, i))

\* re.sub for a pattern that never matches the empty string.  For every
\* position i of s, ends[i] is the position just after the match that starts
\* at i, or 0 if the pattern does not match at i, and repls[i] is what
\* replaces that match.  The scan takes the leftmost match at or after the
\* current position (m, or Len(s)+1 if there is none), copies the text before
\* it, writes the replacement and resumes after the match.
ReSub(s, ends, repls) ==
    LET n == Len(s)
        f[i \in 1..(n + 1)] ==
            LET m == CHOOSE k \in i..(n + 1) :
                         /\ k = n + 1 \/ ends[k] > k
                         /\ \A j \in i..(k - 1) : ends[j] <= j
            IN  IF m = n + 1 THEN SubSeq(s, i, n)
                ELSE SubSeq(s, i, m - 1) \o repls[m] \o f[ends[m]]
    IN  f[1]

\* str.strip()
StrStrip(s) ==
    LET kept == {j \in 1..Len(s) : ~IsSpace(s[j])}
    IN  IF kept = {} THEN <<>> ELSE SubSeq(s, Least(kept), Greatest(kept))

\* the replacement '' of re.sub
ReplNothing(s, i, e) == <<>>

----------------------------------------------------------------------------
(* strip_markdown_syntax: one operator per re.sub of the method.           *)

\* c c ([^c]+) c c : the doubled marker, a greedy run of other characters
\* (newlines included), the doubled marker.  The run cannot be cut short:
\* a shorter run is followed by a character that is not the marker.
DoubleMarkerEnd(s, i, c) ==
    LET j == RunEndExcept(s, i + 2, {c})
    IN  IF /\ At(s, i) = c /\ At(s, i + 1) = c
           /\ j > i + 2
           /\ At(s, j) = c /\ At(s, j + 1) = c
        THEN j + 2 ELSE 0

\* c ([^c]+) c
SingleMarkerEnd(s, i, c) ==
    LET j == RunEndExcept(s, i + 1, {c})
    IN  IF At(s, i) = c /\ j > i + 1 /\ At(s, j) = c THEN j + 1 ELSE 0

\* a variant whose replacement is the whole match, r'\g<0>'
ReplInner2_WholeMatch(s, i, e) == Slice(s, i, e)

\* r'\1' for the doubled-marker patterns
ReplInner2(s, i, e) == Slice(s, i + 2, e - 2)

\* r'\1' for the single-marker patterns
ReplInner1(s, i, e) == Slice(s, i + 1, e - 1)

\* re.sub(r'\*\*([^*]+)\*\*', r'\1', text)
StripBoldStar(s) ==
    ReSub(s, [i \in 1..Len(s) |-> DoubleMarkerEnd(s, i, "*")],
             [i \in 1..Len(s) |-> ReplInner2(s, i, DoubleMarkerEnd(s, i, "*"))])

\* re.sub(r'\*([^*]+)\*', r'\1', text)
StripItalicStar(s) ==
    ReSub(s, [i \in 1..Len(s) |-> SingleMarkerEnd(s, i, "*")],
             [i \in 1..Len(s) |-> ReplInner1(s, i, SingleMarkerEnd(s, i, "*"))])

\* re.sub(r'__([^_]+)__', r'\1', text)
StripBoldUnderscore(s) ==
    ReSub(s, [i \in 1..Len(s) |-> DoubleMarkerEnd(s, i, "_")],
             [i \in 1..Len(s) |-> ReplInner2(s, i, DoubleMarkerEnd(s, i, "_"))])

\* re.sub(r'_([^_]+)_', r'\1', text)
StripItalicUnderscore(s) ==
    ReSub(s, [i \in 1..Len(s) |-> SingleMarkerEnd(s, i, "_")],
             [i \in 1..Len(s) |-> ReplInner1(s, i, SingleMarkerEnd(s, i, "_"))])

\* a variant whose pattern is ^#{0,6}\s+
HeaderEnd_ZeroHashes(s, i) ==
    LET h == RunEnd(s, i, {"#"})
        w == RunEnd(s, h, Whitespace)
    IN  IF AtLineStart(s, i) /\ h - i <= 6 /\ w > h THEN w ELSE 0

\* ^#{1,6}\s+ : one to six '#' at a line start, then a greedy run of whitespace
HeaderEnd(s, i) ==
    LET h == RunEnd(s, i, {"#"})
        w == RunEnd(s, h, Whitespace)
    IN  IF AtLineStart(s, i) /\ h - i >= 1 /\ h - i <= 6 /\ w > h THEN w ELSE 0

\* re.sub(r'^#{1,6}\s+', '', text, flags=re.MULTILINE)
StripHeaders(s) ==
    ReSub(s, [i \in 1..Len(s) |-> HeaderEnd(s, i)],
             [i \in 1..Len(s) |-> ReplNothing(s, i, HeaderEnd(s, i))])

\* three backticks, [\w]*, \n
FenceOpenEnd(s, i) ==
    LET w == RunEnd(s, i + 3, WordChars)
    IN  IF /\ At(s, i) = Backtick /\ At(s, i + 1) = Backtick /\ At(s, i + 2) = Backtick
           /\ At(s, w) = "\n"
        THEN w + 1 ELSE 0

\* re.sub(r'{3 backticks}[\w]*\n', '', text), line 67
StripFenceOpen(s) ==
    ReSub(s, [i \in 1..Len(s) |-> FenceOpenEnd(s, i)],
             [i \in 1..Len(s) |-> ReplNothing(s, i, FenceOpenEnd(s, i))])

\* three backticks
FenceEnd(s, i) ==
    IF At(s, i) = Backtick /\ At(s, i + 1) = Backtick /\ At(s, i + 2) = Backtick
    THEN i + 3 ELSE 0

\* re.sub(r'{3 backticks}', '', text), line 68
StripFence(s) ==
    ReSub(s, [i \in 1..Len(s) |-> FenceEnd(s, i)],
             [i \in 1..Len(s) |-> ReplNothing(s, i, FenceEnd(s, i))])

\* re.sub(r'{backtick}([^{backtick}]+){backtick}', r'\1', text), line 69
StripInlineCode(s) ==
    ReSub(s, [i \in 1..Len(s) |-> SingleMarkerEnd(s, i, Backtick)],
             [i \in 1..Len(s) |-> ReplInner1(s, i, SingleMarkerEnd(s, i, Backtick))])

\* the position of the ']' that closes the label of a link starting at i
LinkLabelEnd(s, i) == RunEndExcept(s, i + 1, {"]"})

\* \[([^\]]+)\]\([^\)]+\)
LinkEnd(s, i) ==
    LET j == LinkLabelEnd(s, i)
        k == RunEndExcept(s, j + 2, {")"})
    IN  IF /\ At(s, i) = "[" /\ j > i + 1
           /\ At(s, j) = "]" /\ At(s, j + 1) = "("
           /\ k > j + 2 /\ At(s, k) = ")"
        THEN k + 1 ELSE 0

\* a variant whose replacement is the label followed by a blank
ReplLabel_Spaced(s, i, e) == Slice(s, i + 1, LinkLabelEnd(s, i)) \o <<" ">>

\* r'\1' for the link pattern: the label
ReplLabel(s, i, e) == Slice(s, i + 1, LinkLabelEnd(s, i))

\* re.sub(r'\[([^\]]+)\]\([^\)]+\)', r'\1', text)
StripLinks(s) ==
    ReSub(s, [i \in 1..Len(s) |-> LinkEnd(s, i)],
             [i \in 1..Len(s) |-> ReplLabel(s, i, LinkEnd(s, i))])

\* ^\s*[-*+]\s+
BulletEnd(s, i) ==
    LET m == RunEnd(s, i, Whitespace)
        w == RunEnd(s, m + 1, Whitespace)
    IN  IF AtLineStart(s, i) /\ At(s, m) \in {"-", "*", "+"} /\ w > m + 1
        THEN w ELSE 0

\* re.sub(r'^\s*[-*+]\s+', '', text, flags=re.MULTILINE)
StripBullets(s) ==
    ReSub(s, [i \in 1..Len(s) |-> BulletEnd(s, i)],
             [i \in 1..Len(s) |-> ReplNothing(s, i, BulletEnd(s, i))])

\* ^\s*\d+\.\s+
NumberedEnd(s, i) ==
    LET m == RunEnd(s, i, Whitespace)
        d == RunEnd(s, m, Digits)
        w == RunEnd(s, d + 1, Whitespace)
    IN  IF AtLineStart(s, i) /\ d > m /\ At(s, d) = "." /\ w > d + 1
        THEN w ELSE 0

\* re.sub(r'^\s*\d+\.\s+', '', text, flags=re.MULTILINE)
StripNumbered(s) ==
    ReSub(s, [i \in 1..Len(s) |-> NumberedEnd(s, i)],
             [i \in 1..Len(s) |-> ReplNothing(s, i, NumberedEnd(s, i))])

\* ^[-*_]{3,}$
RuleEnd(s, i) ==
    LET j == RunEnd(s, i, {"-", "*", "_"})
    IN  IF AtLineStart(s, i) /\ j - i >= 3 /\ AtLineEnd(s, j) THEN j ELSE 0

\* re.sub(r'^[-*_]{3,}$', '', text, flags=re.MULTILINE)
StripRules(s) ==
    ReSub(s, [i \in 1..Len(s) |-> RuleEnd(s, i)],
             [i \in 1..Len(s) |-> ReplNothing(s, i, RuleEnd(s, i))])

\* \n{3,}
NewlineRunEnd(s, i) ==
    LET j == RunEnd(s, i, {"\n"})
    IN  IF j - i >= 3 THEN j ELSE 0

\* the replacement '\n\n'
ReplBlankLine(s, i, e) == <<"\n", "\n">>

\* a variant whose pattern is \n+
CollapseNewlines_EveryNewline(s) ==
    ReSub(s, [i \in 1..Len(s) |-> IF s[i] = "\n" THEN RunEnd(s, i, {"\n"}) ELSE 0],
             [i \in 1..Len(s) |-> <<"\n", "\n">>])

\* re.sub(r'\n{3,}', '\n\n', text)
CollapseNewlines(s) ==
    ReSub(s, [i \in 1..Len(s) |-> NewlineRunEnd(s, i)],
             [i \in 1..Len(s) |-> ReplBlankLine(s, i, NewlineRunEnd(s, i))])

\* a variant that returns the stripped text with a terminating newline
strip_markdown_syntax_newline(s) ==
    StrStrip(CollapseNewlines(StripRules(StripNumbered(StripBullets(StripLinks(
    StripInlineCode(StripFence(StripFenceOpen(StripHeaders(StripItalicUnderscore(
    StripBoldUnderscore(StripItalicStar(StripBoldStar(s)))))))))))))) \o <<"\n">>

\* a variant that cleans up the newlines before it removes the horizontal
\* rules
strip_markdown_syntax_CollapseFirst(s) ==
    StrStrip(StripRules(CollapseNewlines(StripNumbered(StripBullets(StripLinks(
    StripInlineCode(StripFence(StripFenceOpen(StripHeaders(StripItalicUnderscore(
    StripBoldUnderscore(StripItalicStar(StripBoldStar(s))))))))))))))

\* MiniMarkMinifier.strip_markdown_syntax
strip_markdown_syntax(s) ==
    StrStrip(CollapseNewlines(StripRules(StripNumbered(StripBullets(StripLinks(
    StripInlineCode(StripFence(StripFenceOpen(StripHeaders(StripItalicUnderscore(
    StripBoldUnderscore(StripItalicStar(StripBoldStar(s))))))))))))))

----------------------------------------------------------------------------
(* The tables MiniMarkMinifier.__init__ builds.                            *)

\* stopwords.words('english'): the words of the NLTK list that occur in the
\* texts of this model
NltkStopwords ==
    {
     <<"t","h","e">>, <<"o","n">>, <<"i","s">>, <<"t","h","i","s">>,
     <<"v","e","r","y">>, <<"i","n">>, <<"t","o">>, <<"a">>,
     <<"i">>, <<"i","t">>, <<"a","s">>, <<"y","o","u">>,
     <<"m","y">>
    }

\* self.stopwords.update([...])
AddedStopwords ==
    {
     <<"p","l","e","a","s","e">>, <<"t","h","a","n","k">>, <<"t","h","a","n","k","s">>,
     <<"k","i","n","d","l","y">>, <<"c","o","u","l","d">>, <<"w","o","u","l","d">>,
     <<"m","a","y","b","e">>, <<"p","e","r","h","a","p","s">>, <<"p","o","s","s","i","b","l","y">>,
     <<"p","r","o","b","a","b","l","y">>
    }

\* the alternatives of the first filler pattern, in order
FillerPhrases ==
    <<
     <<"i","n"," ","o","r","d","e","r"," ","t","o">>,
     <<"i","n"," ","m","y"," ","o","p","i","n","i","o","n">>,
     <<"I"," ","t","h","i","n","k">>,
     <<"I"," ","b","e","l","i","e","v","e">>,
     <<"i","t"," ","s","e","e","m","s">>,
     <<"a","s"," ","y","o","u"," ","k","n","o","w">>
    >>

\* the alternatives of the second filler pattern, in order
FillerAdverbs ==
    <<
     <<"b","a","s","i","c","a","l","l","y">>, <<"a","c","t","u","a","l","l","y">>,
     <<"l","i","t","e","r","a","l","l","y">>, <<"h","o","n","e","s","t","l","y">>,
     <<"f","r","a","n","k","l","y">>
    >>

\* the alternatives of the third filler pattern, in order
FillerIntensifiers ==
    <<
     <<"v","e","r","y">>, <<"r","e","a","l","l","y">>, <<"q","u","i","t","e">>,
     <<"r","a","t","h","e","r">>, <<"s","o","m","e","w","h","a","t">>, <<"f","a","i","r","l","y">>
    >>

\* self.filler_patterns: each pattern is \b(alt|alt|...)\b, kept as the
\* ordered list of its alternatives
FillerPatterns == <<FillerPhrases, FillerAdverbs, FillerIntensifiers>>

\* self.preserve_terms
PreserveTerms ==
    {
     <<"a","p","i">>, <<"c","l","i">>, <<"j","s","o","n">>,
     <<"x","m","l">>, <<"h","t","m","l">>, <<"c","s","s">>,
     <<"s","q","l">>, <<"h","t","t","p">>, <<"h","t","t","p","s">>,
     <<"g","i","t">>, <<"g","i","t","h","u","b">>, <<"d","o","c","k","e","r">>,
     <<"k","u","b","e","r","n","e","t","e","s">>, <<"p","y","t","h","o","n">>,
     <<"j","a","v","a","s","c","r","i","p","t">>,
     <<"m","a","r","k","d","o","w","n">>, <<"m","i","n","i","m","a","r","k">>,
     <<"f","u","n","c","t","i","o","n">>,
     <<"c","l","a","s","s">>, <<"m","e","t","h","o","d">>, <<"v","a","r","i","a","b","l","e">>
    }

----------------------------------------------------------------------------
(* simplify_sentences                                                      *)

\* the literal p matches at i, ignoring case (re.IGNORECASE)
LiteralAt_CaseSensitive(s, i, p) ==
    /\ i + Len(p) - 1 <= Len(s)
    /\ \A k \in 1..Len(p) : s[i + k - 1] = p[k]

LiteralAt(s, i, p) ==
    /\ i + Len(p) - 1 <= Len(s)
    /\ \A k \in 1..Len(p) : LowerChar(s[i + k - 1]) = LowerChar(p[k])

\* \b(alt1|alt2|...)\b at i: the alternatives are tried in order, and an
\* alternative that is not followed by a word boundary gives way to the next
FillerEnd(s, i, alts) ==
    LET ok == {k \in 1..Len(alts) :
                  LiteralAt(s, i, alts[k]) /\ AtWordBoundary(s, i + Len(alts[k]))}
    IN  IF AtWordBoundary(s, i) /\ ok # {} THEN i + Len(alts[Least(ok)]) ELSE 0

\* re.sub(pattern, '', text, flags=re.IGNORECASE)
RemoveFiller(s, alts) ==
    ReSub(s, [i \in 1..Len(s) |-> FillerEnd(s, i, alts)],
             [i \in 1..Len(s) |-> ReplNothing(s, i, FillerEnd(s, i, alts))])

\* for pattern in self.filler_patterns: text = re.sub(pattern, '', text, ...)
RECURSIVE RemoveFillers(_, _)
RemoveFillers(s, patterns) ==
    IF patterns = <<>> THEN s
    ELSE RemoveFillers(RemoveFiller(s, Head(patterns)), Tail(patterns))

\* \s+
SpaceRunEnd(s, i) ==
    LET j == RunEnd(s, i, Whitespace) IN IF j > i THEN j ELSE 0

\* the replacement ' '
ReplSpace(s, i, e) == <<" ">>

\* a variant whose pattern is ' +', blanks only
CollapseSpaces_BlanksOnly(s) ==
    ReSub(s, [i \in 1..Len(s) |-> IF s[i] = " " THEN RunEnd(s, i, {" "}) ELSE 0],
             [i \in 1..Len(s) |-> <<" ">>])

\* re.sub(r'\s+', ' ', text)
CollapseSpaces(s) ==
    ReSub(s, [i \in 1..Len(s) |-> SpaceRunEnd(s, i)],
             [i \in 1..Len(s) |-> ReplSpace(s, i, SpaceRunEnd(s, i))])

\* \s+([.,!?]) : the greedy run of whitespace must end at the punctuation mark
SpaceBeforePunctEnd(s, i) ==
    LET j == RunEnd(s, i, Whitespace)
    IN  IF j > i /\ At(s, j) \in {".", ",", "!", "?"} THEN j + 1 ELSE 0

\* r'\1' for the pattern above: the punctuation mark
ReplLast(s, i, e) == <<s[e - 1]>>

\* a variant that puts one space after every punctuation mark instead
TightenPunct_SpaceAfter(s) ==
    ReSub(s, [i \in 1..Len(s) |-> IF s[i] \in {".", ",", "!", "?"}
                                  THEN RunEnd(s, i + 1, Whitespace) ELSE 0],
             [i \in 1..Len(s) |-> <<s[i], " ">>])

\* re.sub(r'\s+([.,!?])', r'\1', text)
TightenPunct(s) ==
    ReSub(s, [i \in 1..Len(s) |-> SpaceBeforePunctEnd(s, i)],
             [i \in 1..Len(s) |-> ReplLast(s, i, SpaceBeforePunctEnd(s, i))])

\* a variant that removes the fillers after it has cleaned up the spacing
simplify_sentences_FillersLast(s, patterns) ==
    StrStrip(RemoveFillers(TightenPunct(CollapseSpaces(s)), patterns))

\* MiniMarkMinifier.simplify_sentences
simplify_sentences(s, patterns) ==
    StrStrip(TightenPunct(CollapseSpaces(RemoveFillers(s, patterns))))

----------------------------------------------------------------------------
(* The NLTK tokenizers the minifier calls.  They are modelled by what they  *)
(* do on texts over letters, digits, whitespace and the marks . , # _ :    *)
(* the words of the texts are neither abbreviations nor contractions.      *)

\* str.split(): the maximal runs of non-whitespace characters
RECURSIVE SplitFrom(_, _)
SplitFrom(s, i) ==
    LET b == RunEnd(s, i, Whitespace)
        e == RunEndExcept(s, b, Whitespace)
    IN  IF b > Len(s) THEN <<>> ELSE <<Slice(s, b, e)>> \o SplitFrom(s, e)

\* str.split()
Split(s) == SplitFrom(s, 1)

\* a variant that joins with two blanks
RECURSIVE JoinSpace_TwoBlanks(_)
JoinSpace_TwoBlanks(list) ==
    IF list = <<>> THEN <<>>
    ELSE IF Len(list) = 1 THEN list[1]
    ELSE list[1] \o <<" ", " ">> \o JoinSpace_TwoBlanks(Tail(list))

\* ' '.join(list)
RECURSIVE JoinSpace(_)
JoinSpace(list) ==
    IF list = <<>> THEN <<>>
    ELSE IF Len(list) = 1 THEN list[1]
    ELSE list[1] \o <<" ">> \o JoinSpace(Tail(list))

\* Punkt's first-pass decision for the period at p: the token that ends there
\* (the run of non-whitespace characters up to p) closes a sentence unless it
\* ends in an ellipsis ("..") or is an initial (one letter and the period)
PeriodEndsSentence(s, p) ==
    /\ At(s, p) = "."
    /\ At(s, p - 1) # "."
    /\ ~(/\ At(s, p - 1) \in LowerLetters \cup UpperLetters
         /\ (p = 2 \/ IsSpace(At(s, p - 2))))

\* Punkt's sentence boundary: a sentence-closing period, whitespace after it
\* and a further token after the whitespace
IsSentenceBreak(s, p) ==
    /\ PeriodEndsSentence(s, p)
    /\ IsSpace(At(s, p + 1))
    /\ RunEnd(s, p + 1, Whitespace) <= Len(s)

\* the sentences of s from position b on: each runs up to its closing period,
\* the next starts at the next token; the last one loses its trailing
\* whitespace and an empty one is dropped
RECURSIVE SentencesFrom(_, _)
SentencesFrom(s, b) ==
    LET breaks == {q \in b..Len(s) : IsSentenceBreak(s, q)}
        p == Least(breaks)
        last == Len(s) - (RunEnd(Reverse(s), 1, Whitespace) - 1)
    IN  IF breaks # {}
        THEN <<SubSeq(s, b, p)>> \o SentencesFrom(s, RunEnd(s, p + 1, Whitespace))
        ELSE IF last >= b THEN <<SubSeq(s, b, last)>> ELSE <<>>

\* nltk.tokenize.sent_tokenize
sent_tokenize(s) == SentencesFrom(s, 1)

\* the final period of a sentence: ([^\.])(\.)(closing marks)*\s*$ matches the
\* last period when only whitespace follows it and the character before it
\* is not a period
FinalPeriodAt(s) ==
    LET last == Len(s) - (RunEnd(Reverse(s), 1, Whitespace) - 1)
    IN  IF last >= 2 /\ s[last] = "." /\ s[last - 1] # "." THEN last ELSE 0

\* the Treebank rule for the final period: r'\1 \2 \3 '
SplitFinalPeriod(s) ==
    LET p == FinalPeriodAt(s)
    IN  IF p = 0 THEN s ELSE SubSeq(s, 1, p - 1) \o <<" ", ".", " ">>

\* ([:,])([^\d]) -> r' \1 \2'
CommaEnd(s, i) ==
    IF At(s, i) \in {":", ","} /\ i + 1 <= Len(s) /\ ~IsDigit(s[i + 1]) THEN i + 2 ELSE 0

\* r' \1 \2'
ReplCommaNext(s, i, e) == <<" ", s[i], " ", s[i + 1]>>

\* ([:,])$ -> r' \1 ' ; $ also matches before a newline that ends the text
CommaLastEnd(s, i) ==
    IF /\ At(s, i) \in {":", ","}
       /\ (i = Len(s) \/ (i = Len(s) - 1 /\ s[Len(s)] = "\n"))
    THEN i + 1 ELSE 0

\* \.{2,}
DotsEnd(s, i) ==
    LET j == RunEnd(s, i, {"."}) IN IF j - i >= 2 THEN j ELSE 0

\* [;@#$%&] and [?!]
MarkEnd(s, i) == IF At(s, i) \in {";", "@", "#", "$", "%", "&", "?", "!"} THEN i + 1 ELSE 0

\* r' \g<0> '
ReplPadded(s, i, e) == <<" ">> \o Slice(s, i, e) \o <<" ">>

\* the rule ([:,])([^\d]) -> r' \1 \2' applied to a sentence
PadCommas(s) ==
    ReSub(s, [i \in 1..Len(s) |-> CommaEnd(s, i)],
             [i \in 1..Len(s) |-> ReplCommaNext(s, i, CommaEnd(s, i))])

\* the rule ([:,])$ -> r' \1 '
PadLastComma(s) ==
    ReSub(s, [i \in 1..Len(s) |-> CommaLastEnd(s, i)],
             [i \in 1..Len(s) |-> ReplPadded(s, i, CommaLastEnd(s, i))])

\* the rule \.{2,} -> r' \g<0> '
PadDots(s) ==
    ReSub(s, [i \in 1..Len(s) |-> DotsEnd(s, i)],
             [i \in 1..Len(s) |-> ReplPadded(s, i, DotsEnd(s, i))])

\* the rules [;@#$%&] and [?!] -> r' \g<0> '
PadMarks(s) ==
    ReSub(s, [i \in 1..Len(s) |-> MarkEnd(s, i)],
             [i \in 1..Len(s) |-> ReplPadded(s, i, MarkEnd(s, i))])

\* the Treebank tokenizer on one sentence: the punctuation rules, then split()
TreebankTokenize(s) ==
    Split(PadMarks(PadDots(PadLastComma(PadCommas(SplitFinalPeriod(s))))))

\* [token for sent in sentences for token in tokenize(sent)]
RECURSIVE TokensOf(_)
TokensOf(sentences) ==
    IF sentences = <<>> THEN <<>>
    ELSE TreebankTokenize(Head(sentences)) \o TokensOf(Tail(sentences))

\* nltk.tokenize.word_tokenize
word_tokenize(s) == TokensOf(sent_tokenize(s))

----------------------------------------------------------------------------
(* remove_stopwords                                                        *)

\* a variant that appends every word
KeepsWord_Everything(word, stops) == TRUE

\* a variant that looks the word up as written, without lower-casing it
KeepsWord_CaseSensitive(word, stops) == word \notin stops \/ IsAlnum(word) = FALSE

\* the test of line 97: the word is appended to filtered_words
KeepsWord(word, stops) == Lower(word) \notin stops \/ IsAlnum(word) = FALSE

\* a variant that puts the first word to the test of the other words
FilteredWords_NoAnchor(ws, stops) == SelectSeq(ws, LAMBDA w : KeepsWord(w, stops))

\* filtered_words of one sentence: the first word, then the words kept
FilteredWords(ws, stops) ==
    IF ws = <<>> THEN <<>>
    ELSE <<ws[1]>> \o SelectSeq(Tail(ws), LAMBDA w : KeepsWord(w, stops))

\* cleaned_sentences for the sentences given
RECURSIVE CleanedSentences(_, _)
CleanedSentences(sentences, stops) ==
    IF sentences = <<>> THEN <<>>
    ELSE LET filtered == FilteredWords(word_tokenize(Head(sentences)), stops)
         IN  (IF filtered # <<>> THEN <<JoinSpace(filtered)>> ELSE <<>>)
                 \o CleanedSentences(Tail(sentences), stops)

\* MiniMarkMinifier.remove_stopwords
remove_stopwords(s, stops) == JoinSpace(CleanedSentences(sent_tokenize(s), stops))

----------------------------------------------------------------------------
(* replace_synonyms                                                        *)

\* the length up to which a word is never replaced
ShortWordLen == 4

\* words of the texts and the lemma names WordNet lists for them
W_FUNCTION == <<"f","u","n","c","t","i","o","n">>
W_HELP == <<"h","e","l","p">>
W_AUTOMOBILE == <<"a","u","t","o","m","o","b","i","l","e">>
W_IMPORTANT == <<"i","m","p","o","r","t","a","n","t">>
L_FUNCTION ==
    <<<<"f","u","n","c","t","i","o","n">>,
      <<"m","a","t","h","e","m","a","t","i","c","a","l","_","f","u","n","c","t","i","o","n">>,
      <<"s","i","n","g","l","e","-","v","a","l","u","e","d","_","f","u","n","c","t","i","o","n">>,
      <<"m","a","p">>,
      <<"m","a","p","p","i","n","g">>>>
L_FUNCTION2 ==
    <<<<"f","u","n","c","t","i","o","n">>, <<"p","u","r","p","o","s","e">>, <<"r","o","l","e">>, <<"u","s","e">>>>
L_HELP ==
    <<<<"a","i","d">>, <<"a","s","s","i","s","t">>, <<"a","s","s","i","s","t","a","n","c","e">>, <<"h","e","l","p">>>>
L_AUTOMOBILE ==
    <<<<"c","a","r">>, <<"a","u","t","o">>, <<"a","u","t","o","m","o","b","i","l","e">>,
      <<"m","a","c","h","i","n","e">>, <<"m","o","t","o","r","c","a","r">>>>
L_IMPORTANT ==
    <<<<"i","m","p","o","r","t","a","n","t">>, <<"o","f","_","i","m","p","o","r","t">>>>

W_YOUNGSTER == <<"y", "o", "u", "n", "g", "s", "t", "e", "r">>
W_PURCHASE == <<"p", "u", "r", "c", "h", "a", "s", "e">>
W_OCCASIONALLY == <<"o", "c", "c", "a", "s", "i", "o", "n", "a", "l", "l", "y">>
L_CHILD ==
    <<<<"c", "h", "i", "l", "d">>, <<"k", "i", "d">>, <<"y", "o", "u", "n", "g", "s", "t", "e", "r">>, <<"m", "i", "n", "o", "r">>,
      <<"s", "h", "a", "v", "e", "r">>, <<"n", "i", "p", "p", "e", "r">>, <<"s", "m", "a", "l", "l", "_", "f", "r", "y">>,
      <<"t", "i", "d", "d", "l", "e", "r">>, <<"t", "i", "k", "e">>, <<"t", "y", "k", "e">>, <<"f", "r", "y">>,
      <<"n", "e", "s", "t", "l", "i", "n", "g">>>>
L_PURCHASE == <<<<"p", "u", "r", "c", "h", "a", "s", "e">>>>
L_BUY == <<<<"b", "u", "y">>, <<"p", "u", "r", "c", "h", "a", "s", "e">>>>
L_OCCASIONALLY ==
    <<<<"o", "c", "c", "a", "s", "i", "o", "n", "a", "l", "l", "y">>, <<"o", "n", "_", "o", "c", "c", "a", "s", "i", "o", "n">>,
      <<"o", "n", "c", "e", "_", "i", "n", "_", "a", "_", "w", "h", "i", "l", "e">>, <<"n", "o", "w", "_", "a", "n", "d", "_", "t", "h", "e", "n">>,
      <<"n", "o", "w", "_", "a", "n", "d", "_", "a", "g", "a", "i", "n">>, <<"a", "t", "_", "t", "i", "m", "e", "s">>,
      <<"f", "r", "o", "m", "_", "t", "i", "m", "e", "_", "t", "o", "_", "t", "i", "m", "e">>>>

\* wordnet.synsets(word): the synsets of the word, most common sense first,
\* each as the list of the names of its lemmas; the entries of WordNet for the
\* words of this model's texts (the lookup ignores case)
synsets(word) ==
    LET w == Lower(word)
    IN  CASE w = W_FUNCTION -> <<L_FUNCTION, L_FUNCTION2>>
          [] w = W_HELP -> <<L_HELP>>
          [] w = W_AUTOMOBILE -> <<L_AUTOMOBILE>>
          [] w = W_IMPORTANT -> <<L_IMPORTANT>>
          [] w = W_YOUNGSTER -> <<L_CHILD>>
          [] w = W_PURCHASE -> <<L_PURCHASE, L_PURCHASE, <<<<"l", "e", "v", "e", "r", "a", "g", "e">>, <<"p", "u", "r", "c", "h", "a", "s", "e">>>>, L_BUY>>
          [] w = W_OCCASIONALLY -> <<L_OCCASIONALLY>>
          [] OTHER -> <<>>

\* a test that leaves out the preserve terms
SkipsLookup_LengthOnly(word, preserve) == Len(word) <= ShortWordLen

\* the test of line 123: the word is appended unchanged, nothing is looked up
SkipsLookup(word, preserve) == Lower(word) \in preserve \/ Len(word) <= ShortWordLen

\* str.replace('_', ' ')
UnderscoresToSpaces(name) == [i \in 1..Len(name) |-> IF name[i] = "_" THEN " " ELSE name[i]]

\* [l.name().replace('_', ' ') for l in lemmas if l.name().lower() != word.lower()]
SynonymsOf(word, lemmas) ==
    LET kept == SelectSeq(lemmas, LAMBDA name : Lower(name) # Lower(word))
    IN  [i \in 1..Len(kept) |-> UnderscoresToSpaces(kept[i])]

\* a variant that takes the last of the shortest
Shortest_LastOfTies(synonyms) ==
    LET k == CHOOSE i \in 1..Len(synonyms) :
                 /\ \A j \in 1..Len(synonyms) : Len(synonyms[i]) <= Len(synonyms[j])
                 /\ \A j \in (i + 1)..Len(synonyms) : Len(synonyms[j]) > Len(synonyms[i])
    IN  synonyms[k]

\* min(synonyms, key=len): the first of the shortest
Shortest(synonyms) ==
    LET k == CHOOSE i \in 1..Len(synonyms) :
                 /\ \A j \in 1..Len(synonyms) : Len(synonyms[i]) <= Len(synonyms[j])
                 /\ \A j \in 1..(i - 1) : Len(synonyms[j]) > Len(synonyms[i])
    IN  synonyms[k]

\* what the loop body appends to replaced_words for one word
ReplacementOf(word, preserve) ==
    IF SkipsLookup(word, preserve) THEN word
    ELSE LET found == synsets(word)
             synonyms == IF found = <<>> THEN <<>> ELSE SynonymsOf(word, found[1])
         IN  IF synonyms # <<>> /\ Len(Shortest(synonyms)) < Len(word)
             THEN Shortest(synonyms) ELSE word

\* replaced_words after the loop
ReplacedWords(ws, preserve) == [i \in 1..Len(ws) |-> ReplacementOf(ws[i], preserve)]

\* the words for which the loop reaches wordnet.synsets
LookedUp(ws, preserve) == {ws[i] : i \in {j \in 1..Len(ws) : ~SkipsLookup(ws[j], preserve)}}

\* MiniMarkMinifier.replace_synonyms
replace_synonyms(s, preserve) == JoinSpace(ReplacedWords(word_tokenize(s), preserve))

----------------------------------------------------------------------------
(* Inputs.  A text is a concatenation of a bounded number of fragments; a   *)
(* request is a list of tags of bounded length.                            *)

\* the longest request list
MaxReq == 3

\* the number of fragments of a markdown text
MaxMdFrags == 4

\* the number of fragments of a text handed to remove_stopwords
MaxStopFrags == 4

\* the number of fragments of a text handed to simplify_sentences
MaxSimplifyFrags == 4

\* the number of fragments of a text handed to replace_synonyms
MaxSynFrags == 4

\* the concatenation of a list of texts
RECURSIVE Concat(_)
Concat(list) == IF list = <<>> THEN <<>> ELSE Head(list) \o Concat(Tail(list))

\* the texts made of at most n fragments
TextsOf(frags, n) == UNION {{Concat(l) : l \in [1..k -> frags]} : k \in 0..n}

\* the lists of at most n tags
ListsOf(tags, n) == UNION {[1..k -> tags] : k \in 0..n}

\* the strategy tags minify knows
Vocabulary == {"syntax", "stopwords", "simplify", "synonyms"}

\* the tags a caller may pass: the vocabulary and a tag in another case
RequestTags == Vocabulary \cup {"Syntax"}

Requests == ListsOf(RequestTags, MaxReq)

\* the documents handed to the whole pipeline: the empty text, a heading
\* marker after leading whitespace, a heading, an emphasised filler, two
\* sentences, and a document on which every stage has something to do
PipeTexts ==
    {<<>>,
     <<" ","#"," ">>,
     <<"#"," ","t","h","e">>,
     <<"_","v","e","r","y","_"," ","c","a","t",".">>,
     <<"T","h","e"," ","c","a","t","."," ","t","h","e">>,
     <<"#"," ","T","h","e"," ","c","a","t",",","\n","\n","_","v","e","r",
       "y","_"," ","i","m","p","o","r","t","a","n","t"," ","a","u","t","o",
       "m","o","b","i","l","e","."," ","t","h","e"," ","f","u","n","c","t",
       "i","o","n">>}

\* the fragments of a markdown text: a letter, whitespace, the markers, a
\* link and the marker of a numbered item
MdFrags ==
    {<<"a">>, <<" ">>, <<"\n">>, <<"*">>, <<"_">>, <<"#">>, <<"-">>, <<Backtick>>,
     <<"[", "a", "]", "(", "a", ")">>, <<"1", ".">>}

StopFrags ==
    {<<"T","h","e">>, <<"t","h","e">>, <<"c","a","t">>, <<"c","a","t",",">>, <<"s","a","t",".">>,
     <<" ">>, <<"\n">>}

SimplifyFrags == {<<"V","e","r","y">>, <<"I"," ","t","h","i","n","k">>, <<"c","a","t">>, <<"_">>, <<" ">>, <<"\n">>, <<".">>}

SynFrags ==
    {<<"f","u","n","c","t","i","o","n"," ">>, <<"F","u","n","c","t","i","o","n">>,
     <<"h","e","l","p"," ">>, <<"a","u","t","o","m","o","b","i","l","e">>,
     <<"i","m","p","o","r","t","a","n","t">>, <<"J","S","O","N">>, <<" ">>, <<".">>}

----------------------------------------------------------------------------
(* The minifier as a state machine.                                        *)

\* MiniMarkMinifier.__init__, and no call of minify under way
\* the number of threads that call minify on the one instance
MaxThreads == 2

Threads == 1..MaxThreads

\* a thread that is not inside minify
NoFrame == [pc |-> "idle", text |-> <<>>, strategies |-> <<>>, result |-> <<>>, trace |-> <<>>]

Init ==
    /\ stopwords = NltkStopwords \cup AddedStopwords
    /\ filler_patterns = FillerPatterns
    /\ preserve_terms = PreserveTerms
    /\ pc = "idle"
    /\ text = <<>>
    /\ strategies = <<>>
    /\ result = <<>>
    /\ trace = <<>>
    /\ words = <<>>
    /\ replaced_words = <<>>
    /\ consulted = {}
    /\ returned = <<>>
    /\ threads = [c \in Threads |-> NoFrame]
    /\ validator = "None"
    /\ constructions = 0
    /\ calls = <<>>
    /\ bench_pc = "idle"
    /\ original_text = <<>>
    /\ minified_text = <<>>
    /\ strategy_index = 0
    /\ results = <<>>
    /\ dir_pc = "idle"
    /\ md_files = <<>>
    /\ next_file = 0
    /\ validate_all = FALSE
    /\ all_results = <<>>

tables == <<stopwords, filler_patterns, preserve_terms>>

synonym_locals == <<words, replaced_words, consulted>>

\* what a step of the call under way never writes
\* the state of the benchmark engine and of its call under way
benchmark == <<validator, constructions, calls, bench_pc, original_text,
               minified_text, strategy_index, results>>

directory == <<dir_pc, md_files, next_file, validate_all, all_results>>

elsewhere == <<returned, threads, benchmark, directory>>

\* a variant that trims the text on entry
Call_Stripped(texts, requests) ==
    /\ pc = "idle"
    /\ \E t \in texts, r \in requests :
          /\ text' = t
          /\ strategies' = r
          /\ result' = StrStrip(t)
    /\ trace' = <<>>
    /\ pc' = "syntax"
    /\ UNCHANGED <<tables, synonym_locals, elsewhere>>

\* a caller invokes minify(text, strategies): result = text
Call(texts, requests) ==
    /\ pc = "idle"
    /\ \E t \in texts, r \in requests :
          /\ text' = t
          /\ strategies' = r
          /\ result' = t
    /\ trace' = <<>>
    /\ pc' = "syntax"
    /\ UNCHANGED <<tables, synonym_locals, elsewhere>>

\* str.lower() on a tag
TagLower(tag) == IF tag = "Syntax" THEN "syntax" ELSE tag

\* a variant that takes an empty list for a request of every stage
Selected_DefaultAll(tag, list) == list = <<>> \/ \E i \in 1..Len(list) : list[i] = tag

\* a variant that compares tags without regard to case
Selected_IgnoreCase(tag, list) == \E i \in 1..Len(list) : TagLower(list[i]) = tag

\* a variant that also selects the stages of the call that returned last
Selected_Sticky(tag, list) ==
    \/ \E i \in 1..Len(list) : list[i] = tag
    \/ returned # <<>> /\ \E i \in 1..Len(returned[1].strategies) : returned[1].strategies[i] = tag

\* 'tag' in strategies
Selected(tag, list) == \E i \in 1..Len(list) : list[i] = tag

\* a variant with the stopwords and simplify statements in the other order
NextStage_Swapped(stage) ==
    CASE stage = "syntax" -> "simplify"
      [] stage = "simplify" -> "stopwords"
      [] stage = "stopwords" -> "synonyms"
      [] stage = "synonyms" -> "done"

\* the statement that follows the "if" of a stage in minify
NextStage(stage) ==
    CASE stage = "syntax" -> "stopwords"
      [] stage = "stopwords" -> "simplify"
      [] stage = "simplify" -> "synonyms"
      [] stage = "synonyms" -> "done"

\* if 'syntax' in strategies: result = self.strip_markdown_syntax(result)
IfSyntax ==
    /\ pc = "syntax"
    /\ IF Selected("syntax", strategies)
       THEN /\ result' = strip_markdown_syntax(result)
            /\ trace' = Append(trace, "syntax")
       ELSE UNCHANGED <<result, trace>>
    /\ pc' = NextStage(pc)
    /\ UNCHANGED <<tables, text, strategies, synonym_locals, elsewhere>>

\* a variant whose stage raises on a text without a sentence: the call ends
\* there with an exception
IfStopwords_RaisesOnNoSentence ==
    /\ pc = "stopwords"
    /\ IF Selected("stopwords", strategies) /\ sent_tokenize(result) # <<>>
       THEN /\ result' = remove_stopwords(result, stopwords)
            /\ trace' = Append(trace, "stopwords")
       ELSE UNCHANGED <<result, trace>>
    /\ pc' = IF Selected("stopwords", strategies) /\ sent_tokenize(result) = <<>>
             THEN "raised" ELSE NextStage(pc)
    /\ UNCHANGED <<tables, text, strategies, synonym_locals, elsewhere>>

\* if 'stopwords' in strategies: result = self.remove_stopwords(result)
IfStopwords ==
    /\ pc = "stopwords"
    /\ IF Selected("stopwords", strategies)
       THEN /\ result' = remove_stopwords(result, stopwords)
            /\ trace' = Append(trace, "stopwords")
       ELSE UNCHANGED <<result, trace>>
    /\ pc' = NextStage(pc)
    /\ UNCHANGED <<tables, text, strategies, synonym_locals, elsewhere>>

\* a variant whose stage takes the patterns off self.filler_patterns as it
\* applies them
IfSimplify_PopsPatterns ==
    /\ pc = "simplify"
    /\ IF Selected("simplify", strategies)
       THEN /\ result' = simplify_sentences(result, filler_patterns)
            /\ trace' = Append(trace, "simplify")
            /\ filler_patterns' = <<>>
       ELSE UNCHANGED <<result, trace, filler_patterns>>
    /\ pc' = NextStage(pc)
    /\ UNCHANGED <<stopwords, preserve_terms, text, strategies, synonym_locals, elsewhere>>

\* if 'simplify' in strategies: result = self.simplify_sentences(result)
IfSimplify ==
    /\ pc = "simplify"
    /\ IF Selected("simplify", strategies)
       THEN /\ result' = simplify_sentences(result, filler_patterns)
            /\ trace' = Append(trace, "simplify")
       ELSE UNCHANGED <<result, trace>>
    /\ pc' = NextStage(pc)
    /\ UNCHANGED <<tables, text, strategies, synonym_locals, elsewhere>>

\* if 'synonyms' in strategies: result = self.replace_synonyms(result)
IfSynonyms ==
    /\ pc = "synonyms"
    /\ IF Selected("synonyms", strategies)
       THEN /\ words' = word_tokenize(result)
            /\ replaced_words' = ReplacedWords(word_tokenize(result), preserve_terms)
            /\ consulted' = LookedUp(word_tokenize(result), preserve_terms)
            /\ result' = replace_synonyms(result, preserve_terms)
            /\ trace' = Append(trace, "synonyms")
       ELSE UNCHANGED <<result, trace, synonym_locals>>
    /\ pc' = NextStage(pc)
    /\ UNCHANGED <<tables, text, strategies, elsewhere>>

\* return result: the call is over and its locals are gone
Return ==
    /\ pc = "done"
    /\ pc' = "idle"
    /\ text' = <<>>
    /\ strategies' = <<>>
    /\ result' = <<>>
    /\ trace' = <<>>
    /\ words' = <<>>
    /\ replaced_words' = <<>>
    /\ consulted' = {}
    /\ UNCHANGED <<tables, elsewhere>>

\* return result, remembered as the call that returned last
ReturnRemembered ==
    /\ pc = "done"
    /\ returned' = <<[text |-> text, strategies |-> strategies, result |-> result]>>
    /\ pc' = "idle"
    /\ text' = <<>>
    /\ strategies' = <<>>
    /\ result' = <<>>
    /\ trace' = <<>>
    /\ words' = <<>>
    /\ replaced_words' = <<>>
    /\ consulted' = {}
    /\ UNCHANGED <<tables, threads, benchmark, directory>>

\* minify called with any request on a text of the pipeline alphabet
CallPipeline == Call(PipeTexts, Requests)

\* minify(text, []) and minify(text, ['syntax']) on a markdown text
CallSyntax == Call(TextsOf(MdFrags, MaxMdFrags), {<<>>, <<"syntax">>})

\* minify(text, ['stopwords'])
CallStopwords == Call(TextsOf(StopFrags, MaxStopFrags), {<<"stopwords">>})

\* minify(text, ['simplify'])
CallSimplify == Call(TextsOf(SimplifyFrags, MaxSimplifyFrags), {<<"simplify">>})

\* minify(text, ['synonyms'])
CallSynonyms == Call(TextsOf(SynFrags, MaxSynFrags), {<<"synonyms">>})

Next == CallPipeline \/ IfSyntax \/ IfStopwords \/ IfSimplify \/ IfSynonyms \/ Return

Spec == Init /\ [][Next]_vars

NextSyntax == CallSyntax \/ IfSyntax \/ IfStopwords \/ IfSimplify \/ IfSynonyms \/ Return

SpecSyntax == Init /\ [][NextSyntax]_vars

NextStopwords == CallStopwords \/ IfSyntax \/ IfStopwords \/ IfSimplify \/ IfSynonyms \/ Return

SpecStopwords == Init /\ [][NextStopwords]_vars

NextSimplify == CallSimplify \/ IfSyntax \/ IfStopwords \/ IfSimplify \/ IfSynonyms \/ Return

SpecSimplify == Init /\ [][NextSimplify]_vars

NextSynonyms == CallSynonyms \/ IfSyntax \/ IfStopwords \/ IfSimplify \/ IfSynonyms \/ Return

SpecSynonyms == Init /\ [][NextSynonyms]_vars

\* the document '# Hello', a blank line, 'This is **very** important, please.'
HelloText ==
    <<"#", " ", "H", "e", "l", "l", "o", "\n", "\n", "T", "h", "i", "s",
      " ", "i", "s", " ", "*", "*", "v", "e", "r", "y", "*", "*", " ", "i",
      "m", "p", "o", "r", "t", "a", "n", "t", ",", " ", "p", "l", "e", "a",
      "s", "e", ".">>

\* the sentence 'The cat sat on the mat.'
CatText ==
    <<"T", "h", "e", " ", "c", "a", "t", " ", "s", "a", "t", " ", "o", "n",
      " ", "t", "h", "e", " ", "m", "a", "t", ".">>

\* minify called with any request on one of the two documents
CallScenario == Call({HelloText, CatText}, Requests)

NextScenario == CallScenario \/ IfSyntax \/ IfStopwords \/ IfSimplify \/ IfSynonyms \/ Return

SpecScenario == Init /\ [][NextScenario]_vars

\* the number of fragments of the body of a fenced code block
MaxBodyFrags == 3

\* the fragments of a code body: a letter, whitespace, emphasised and quoted
\* letters, a comment or heading marker, a list marker and a line of dashes
BodyFrags ==
    {<<"a">>, <<" ">>, <<"\n">>, <<"*", "a", "*">>, <<"_", "a", "_">>,
     <<Backtick, "a", Backtick>>, <<"#", " ">>, <<"-", " ">>, <<"-", "-", "-">>}

\* the language tags of an opening fence: none, and 'py'
FenceTags == {<<>>, <<"p", "y">>}

\* a fenced code block: the opening delimiter with its tag on a line of its
\* own, the body, the closing delimiter on a line of its own
Fenced(tag, body) ==
    <<Backtick, Backtick, Backtick>> \o tag \o <<"\n">> \o body \o
    <<"\n", Backtick, Backtick, Backtick>>

\* the body of a fenced code block: what stands between the line of the
\* opening delimiter and the line of the closing one
FenceBody(t) == SubSeq(t, RunEndExcept(t, 1, {"\n"}) + 1, Len(t) - 4)

\* minify(text, ['syntax']) on a document that is one fenced code block
CallFence ==
    Call({Fenced(tag, body) : tag \in FenceTags, body \in TextsOf(BodyFrags, MaxBodyFrags)},
         {<<"syntax">>})

NextFence == CallFence \/ IfSyntax \/ IfStopwords \/ IfSimplify \/ IfSynonyms \/ Return

SpecFence == Init /\ [][NextFence]_vars

\* malformed and degenerate documents: the empty and a whitespace-only text,
\* unbalanced emphasis markers, an unterminated code fence, an unclosed link,
\* a lone heading marker, and texts a stage reduces to nothing
TotalTexts ==
    {<<>>,
     <<" ", "\n", " ">>,
     <<"*", "*", "a">>,
     <<"*", "a", " ", "_", "a">>,
     <<Backtick, Backtick, Backtick, "p", "y", "\n", "a">>,
     <<"[", "a", "]", "(">>,
     <<"#">>,
     <<"-", "-", "-">>,
     <<"V", "e", "r", "y">>}

\* minify called with any request on a malformed or degenerate document
CallTotal == Call(TotalTexts, Requests)

NextTotal == CallTotal \/ IfSyntax \/ IfStopwords \/ IfSimplify \/ IfSynonyms \/ Return

SpecTotal == Init /\ [][NextTotal]_vars

\* the requests of the calls made one after the other on one minifier
RepeatRequests ==
    {<<>>, <<"syntax">>, <<"syntax", "stopwords">>, <<"stopwords", "syntax">>,
     <<"simplify">>, <<"syntax", "stopwords", "simplify", "synonyms">>}

\* minify called again and again on one minifier
CallRepeat == Call(PipeTexts, RepeatRequests)

NextRepeat == CallRepeat \/ IfSyntax \/ IfStopwords \/ IfSimplify \/ IfSynonyms \/ ReturnRemembered

SpecRepeat == Init /\ [][NextRepeat]_vars

\* the documents of the threads
ThreadTexts == {CatText, <<"*", "a", "*">>}

\* the requests of the threads
ThreadRequests ==
    {<<"syntax">>, <<"stopwords", "syntax">>,
     <<"syntax", "stopwords", "simplify", "synonyms">>}

\* what a step of a thread never writes: the instance and the frame of the
\* call modelled alone
outside_threads ==
    <<tables, pc, text, strategies, result, trace, synonym_locals, returned, benchmark,
      directory>>

\* def minify(self, text, strategies), entered by thread c: result = text
ThreadCall(c) ==
    /\ threads[c].pc = "idle"
    /\ \E t \in ThreadTexts, r \in ThreadRequests :
          threads' = [threads EXCEPT ![c] =
              [pc |-> "syntax", text |-> t, strategies |-> r, result |-> t, trace |-> <<>>]]
    /\ UNCHANGED outside_threads

\* a variant that keeps the intermediate result in an attribute of the
\* instance, which every thread reads and writes
ThreadIfSyntax_SharedResult(c) ==
    /\ threads[c].pc = "syntax"
    /\ threads' =
          IF Selected("syntax", threads[c].strategies)
          THEN [d \in Threads |->
                  IF d = c
                  THEN [threads[c] EXCEPT !.result = strip_markdown_syntax(threads[c].result),
                                          !.trace = Append(threads[c].trace, "syntax"),
                                          !.pc = NextStage(threads[c].pc)]
                  ELSE [threads[d] EXCEPT !.result = strip_markdown_syntax(threads[c].result)]]
          ELSE [threads EXCEPT ![c].pc = NextStage(threads[c].pc)]
    /\ UNCHANGED outside_threads

\* if 'syntax' in strategies: result = self.strip_markdown_syntax(result),
\* in thread c
ThreadIfSyntax(c) ==
    /\ threads[c].pc = "syntax"
    /\ threads' =
          IF Selected("syntax", threads[c].strategies)
          THEN [threads EXCEPT ![c].result = strip_markdown_syntax(threads[c].result),
                               ![c].trace = Append(threads[c].trace, "syntax"),
                               ![c].pc = NextStage(threads[c].pc)]
          ELSE [threads EXCEPT ![c].pc = NextStage(threads[c].pc)]
    /\ UNCHANGED outside_threads

\* if 'stopwords' in strategies: result = self.remove_stopwords(result),
\* in thread c
ThreadIfStopwords(c) ==
    /\ threads[c].pc = "stopwords"
    /\ threads' =
          IF Selected("stopwords", threads[c].strategies)
          THEN [threads EXCEPT ![c].result = remove_stopwords(threads[c].result, stopwords),
                               ![c].trace = Append(threads[c].trace, "stopwords"),
                               ![c].pc = NextStage(threads[c].pc)]
          ELSE [threads EXCEPT ![c].pc = NextStage(threads[c].pc)]
    /\ UNCHANGED outside_threads

\* if 'simplify' in strategies: result = self.simplify_sentences(result),
\* in thread c
ThreadIfSimplify(c) ==
    /\ threads[c].pc = "simplify"
    /\ threads' =
          IF Selected("simplify", threads[c].strategies)
          THEN [threads EXCEPT ![c].result = simplify_sentences(threads[c].result, filler_patterns),
                               ![c].trace = Append(threads[c].trace, "simplify"),
                               ![c].pc = NextStage(threads[c].pc)]
          ELSE [threads EXCEPT ![c].pc = NextStage(threads[c].pc)]
    /\ UNCHANGED outside_threads

\* if 'synonyms' in strategies: result = self.replace_synonyms(result),
\* in thread c
ThreadIfSynonyms(c) ==
    /\ threads[c].pc = "synonyms"
    /\ threads' =
          IF Selected("synonyms", threads[c].strategies)
          THEN [threads EXCEPT ![c].result = replace_synonyms(threads[c].result, preserve_terms),
                               ![c].trace = Append(threads[c].trace, "synonyms"),
                               ![c].pc = NextStage(threads[c].pc)]
          ELSE [threads EXCEPT ![c].pc = NextStage(threads[c].pc)]
    /\ UNCHANGED outside_threads

\* return result, in thread c: the frame is gone
ThreadReturn(c) ==
    /\ threads[c].pc = "done"
    /\ threads' = [threads EXCEPT ![c] = NoFrame]
    /\ UNCHANGED outside_threads

\* the threads take their steps in any order
NextThreads ==
    \E c \in Threads :
        \/ ThreadCall(c)
        \/ ThreadIfSyntax(c)
        \/ ThreadIfStopwords(c)
        \/ ThreadIfSimplify(c)
        \/ ThreadIfSynonyms(c)
        \/ ThreadReturn(c)

SpecThreads == Init /\ [][NextThreads]_vars

\* the number of fragments of a text with fillers and parts of fillers
MaxFillerFrags == 4

\* fragments of texts with fillers: a phrase whole and in two parts, an
\* intensifier in both cases, an adverb
FillerFrags ==
    {<<"I", " ", "t", "h", "i", "n", "k", " ">>, <<"I", " ">>, <<"t", "h", "i", "n", "k">>, <<"v", "e", "r", "y", " ">>, <<"V", "e", "r", "y", " ">>,
     <<"f", "r", "a", "n", "k", "l", "y", " ">>, <<"a">>, <<"\n">>}

\* minify called with the simplify stage alone on a text with fillers
CallFiller == Call(TextsOf(FillerFrags, MaxFillerFrags), {<<"simplify">>})

NextFiller == CallFiller \/ IfSyntax \/ IfStopwords \/ IfSimplify \/ IfSynonyms \/ Return

SpecFiller == Init /\ [][NextFiller]_vars

\* the number of fragments of the label and of the url of a link
MaxPartFrags == 2

\* fragments of labels and urls: a letter, emphasis markers, a code fence
PartFrags == {<<"a">>, <<"*">>, <<"_">>, <<Backtick, Backtick, Backtick>>}

\* what stands before and after the link
AroundLink == {<<>>, <<"*">>, <<"a", " ">>}

\* the inline link [label](url)
Linked(label, url) == <<"[">> \o label \o <<"]", "(">> \o url \o <<")">>

\* minify called with the syntax stage alone on a text with one inline link,
\* its label and its url not empty and free of brackets and parentheses
CallLink ==
    Call({pre \o Linked(label, url) \o post :
             pre \in AroundLink, post \in AroundLink,
             label \in TextsOf(PartFrags, MaxPartFrags) \ {<<>>},
             url \in TextsOf(PartFrags, MaxPartFrags) \ {<<>>}},
         {<<"syntax">>})

NextLink == CallLink \/ IfSyntax \/ IfStopwords \/ IfSimplify \/ IfSynonyms \/ Return

SpecLink == Init /\ [][NextLink]_vars

\* the number of fragments of a text with horizontal rules
MaxRuleFrags == 4

\* fragments of texts with horizontal rules of the three kinds and, elsewhere,
\* emphasis and list markers
RuleFrags ==
    {<<"a">>, <<"\n">>, <<"*">>, <<"_">>, <<"-", " ">>,
     <<"*", "*", "*">>, <<"_", "_", "_">>, <<"-", "-", "-">>}

\* minify called with the syntax stage alone on a text with horizontal rules
CallRule == Call(TextsOf(RuleFrags, MaxRuleFrags), {<<"syntax">>})

NextRule == CallRule \/ IfSyntax \/ IfStopwords \/ IfSimplify \/ IfSynonyms \/ Return

SpecRule == Init /\ [][NextRule]_vars

\* the number of fragments of a text with whitespace of several kinds
MaxSpacingFrags == 4

\* fragments of texts with blanks, tabs and newlines around words, fillers and
\* punctuation marks
SpacingFrags ==
    {<<"a">>, <<" ">>, <<"\n">>, <<"\t">>, <<".">>, <<"!">>, <<"v", "e", "r", "y">>}

\* minify called with the simplify stage alone on such a text
CallSpacing == Call(TextsOf(SpacingFrags, MaxSpacingFrags), {<<"simplify">>})

NextSpacing == CallSpacing \/ IfSyntax \/ IfStopwords \/ IfSimplify \/ IfSynonyms \/ Return

SpecSpacing == Init /\ [][NextSpacing]_vars

\* the number of fragments of a text with blank lines
MaxBlankFrags == 4

\* fragments of texts with runs of newlines, on their own and around a
\* horizontal rule or a heading
BlankFrags ==
    {<<"a">>, <<" ">>, <<"\n">>, <<"\n", "\n">>, <<"\n", "-", "-", "-", "\n">>, <<"#", " ">>}

\* minify called with the syntax stage alone on a text with blank lines
CallBlank == Call(TextsOf(BlankFrags, MaxBlankFrags), {<<"syntax">>})

NextBlank == CallBlank \/ IfSyntax \/ IfStopwords \/ IfSimplify \/ IfSynonyms \/ Return

SpecBlank == Init /\ [][NextBlank]_vars

\* the number of fragments of a text handed to replace_synonyms for a lookup
MaxLookupFrags == 3

\* words that WordNet has entries for, one to a fragment
LookupFrags ==
    {<<"y", "o", "u", "n", "g", "s", "t", "e", "r", " ">>, <<"p", "u", "r", "c", "h", "a", "s", "e", " ">>,
     <<"o", "c", "c", "a", "s", "i", "o", "n", "a", "l", "l", "y", " ">>, <<"O", "c", "c", "a", "s", "i", "o", "n", "a", "l", "l", "y">>,
     <<"i", "m", "p", "o", "r", "t", "a", "n", "t", " ">>, <<"a", "u", "t", "o", "m", "o", "b", "i", "l", "e", " ">>, <<".">>}

\* minify called with the synonyms stage alone on a text of those words
CallLookup == Call(TextsOf(LookupFrags, MaxLookupFrags), {<<"synonyms">>})

NextLookup == CallLookup \/ IfSyntax \/ IfStopwords \/ IfSimplify \/ IfSynonyms \/ Return

SpecLookup == Init /\ [][NextLookup]_vars

----------------------------------------------------------------------------
(* Properties of minify as a whole.  C1 is checked under SpecSyntax, on     *)
(* every markdown text of the model; C2 to C5 under Spec, on every request  *)
(* list.                                                                   *)

\* the tags that occur in a request list
TagsOf(list) == {list[i] : i \in 1..Len(list)}

\* the four stages in the order syntax, stopwords, simplify, synonyms
CanonicalOrder == <<"syntax", "stopwords", "simplify", "synonyms">>

\* one stage applied to a text, with the tables __init__ built
StageOutput(stage, t) ==
    CASE stage = "syntax" -> strip_markdown_syntax(t)
      [] stage = "stopwords" -> remove_stopwords(t, NltkStopwords \cup AddedStopwords)
      [] stage = "simplify" -> simplify_sentences(t, FillerPatterns)
      [] stage = "synonyms" -> replace_synonyms(t, PreserveTerms)

\* the stages of a list applied one after the other, each to the output of
\* the one before
RECURSIVE Chained(_, _)
Chained(t, stages) ==
    IF stages = <<>> THEN t
    ELSE Chained(StageOutput(Head(stages), t), Tail(stages))

\* the number of times a tag occurs in a list
Count(list, tag) == Cardinality({i \in 1..Len(list) : list[i] = tag})

\* C1: with an empty strategy list minify returns its input unchanged,
\* character for character, and invokes no stage.
C1_EmptyRequestIsIdentity ==
    (pc = "done" /\ strategies = <<>>) => (result = text /\ trace = <<>>)

\* a call with an empty list has returned a text that starts with whitespace
\* and carries a heading marker
C1_Witness ==
    /\ pc = "done"
    /\ strategies = <<>>
    /\ text = <<" ", "#", "*", "\n">>
    /\ result = text

\* C2: whatever the order of the request list, the stages invoked are the
\* requested ones in the order syntax, stopwords, simplify, synonyms, and the
\* value returned is the chain of those stages, each applied to the output of
\* the one before; so the result depends only on the set of tags requested.
C2_CanonicalOrder ==
    pc = "done" =>
        LET plan == SelectSeq(CanonicalOrder, LAMBDA tag : tag \in TagsOf(strategies))
        IN  trace = plan /\ result = Chained(text, plan)

\* a call that asked for simplify before stopwords has run stopwords first,
\* and the text was changed
C2_Witness ==
    /\ pc = "done"
    /\ strategies = <<"simplify", "stopwords">>
    /\ trace = <<"stopwords", "simplify">>
    /\ result # text

\* C3: a stage whose tag is not requested is never invoked and changes
\* nothing: at every point of a call only requested stages have run, and the
\* intermediate result is exactly what the stages that ran have produced
\* from the input (the input itself if none ran).
C3_SkippedStageChangesNothing ==
    pc # "idle" =>
        /\ \A i \in 1..Len(trace) : trace[i] \in TagsOf(strategies)
        /\ result = Chained(text, trace)

\* stopwords was not requested and has just been passed over: simplify is
\* about to receive what syntax returned
C3_Witness ==
    /\ pc = "simplify"
    /\ TagsOf(strategies) = {"syntax", "simplify"}
    /\ trace = <<"syntax">>
    /\ result = strip_markdown_syntax(text)
    /\ result # text

\* C4: tags outside the case-sensitive vocabulary and repeated tags change
\* nothing: every call reaches its return, each stage of the vocabulary that
\* occurs in the list has run exactly once, no other stage has run, and the
\* result is that of the list without unknown tags and repetitions.
C4_UnknownAndRepeatedTags ==
    pc = "done" =>
        LET known == TagsOf(strategies) \cap Vocabulary
            cleaned == SelectSeq(CanonicalOrder, LAMBDA tag : tag \in known)
        IN  /\ \A tag \in Vocabulary :
                  Count(trace, tag) = IF tag \in known THEN 1 ELSE 0
            /\ Len(trace) = Cardinality(known)
            /\ result = Chained(text, cleaned)

\* a call with the unknown tag 'Syntax' and a repeated 'stopwords' has run
\* stopwords once and syntax not at all, on a text with a heading marker
C4_Witness ==
    /\ pc = "done"
    /\ strategies = <<"Syntax", "stopwords", "stopwords">>
    /\ trace = <<"stopwords">>
    /\ text = <<"#", " ", "t", "h", "e">>
    /\ result = <<"#">>

\* C5: on the empty string every stage returns the empty string, so the
\* intermediate and the final result of minify("", S) are empty for every S.
C5_EmptyTextStaysEmpty ==
    (pc # "idle" /\ text = <<>>) => result = <<>>

\* a call on the empty string has run stages and returned the empty string
C5_Witness ==
    /\ pc = "done"
    /\ text = <<>>
    /\ Len(trace) = MaxReq
    /\ result = <<>>

----------------------------------------------------------------------------
(* Properties of the single stages, each checked under the specification    *)
(* that calls minify with that stage alone.                                *)

\* C6: the output of minify(T, ['syntax']) is never longer than T.
C6_SyntaxNeverLonger ==
    (pc = "done" /\ trace = <<"syntax">>) => Len(result) <= Len(text)

\* the syntax stage has shortened a text without emptying it
C6_Witness ==
    /\ pc = "done"
    /\ trace = <<"syntax">>
    /\ result # <<>>
    /\ Len(result) < Len(text)

\* C7: the output of minify(T, ['stopwords']) is never longer than T.
C7_StopwordsNeverLonger ==
    (pc = "done" /\ trace = <<"stopwords">>) => Len(result) <= Len(text)

\* C8: the output of minify(T, ['simplify']) is never longer than T.
C8_SimplifyNeverLonger ==
    (pc = "done" /\ trace = <<"simplify">>) => Len(result) <= Len(text)

\* the simplify stage has removed a filler and kept the rest of the text
C8_Witness ==
    /\ pc = "done"
    /\ trace = <<"simplify">>
    /\ text = <<"V", "e", "r", "y", " ", "c", "a", "t">>
    /\ result = <<"c", "a", "t">>

\* the characters the patterns of strip_markdown_syntax look for
MarkerChars == {"*", "_", "#", Backtick, "[", "-", "+"}

\* a text without any of those characters and without a digit before a period
MarkerFree(t) ==
    \A i \in 1..Len(t) :
        t[i] \notin MarkerChars /\ ~(IsDigit(t[i]) /\ At(t, i + 1) = ".")

\* a text without leading or trailing whitespace and without three newlines
\* in a row
Normalised(t) ==
    /\ t = <<>> \/ (~IsSpace(t[1]) /\ ~IsSpace(t[Len(t)]))
    /\ \A i \in 1..Len(t) : ~(At(t, i) = "\n" /\ At(t, i + 1) = "\n" /\ At(t, i + 2) = "\n")

\* C9 as stated: stripping the output of strip_markdown_syntax again changes
\* nothing, for every text.
C9_RestrippingChangesNothing ==
    (pc = "done" /\ trace = <<"syntax">>) => strip_markdown_syntax(result) = result

\* C9 as amended: a text that is free of the markers, of leading and trailing
\* whitespace and of runs of three newlines is returned unchanged by
\* strip_markdown_syntax, so stripping it twice is the same as stripping it
\* once.
C9_MarkerFreeTextUnchanged ==
    (pc = "done" /\ trace = <<"syntax">> /\ MarkerFree(text) /\ Normalised(text)) =>
        (result = text /\ strip_markdown_syntax(result) = result)

\* the syntax stage has returned a marker-free text with an indented second
\* line as it was
C9_Witness ==
    /\ pc = "done"
    /\ trace = <<"syntax">>
    /\ text = <<"a", "\n", " ", "a">>
    /\ result = text

\* C10: in replace_synonyms every token that is a preserve term (ignoring
\* case) or has at most four characters is emitted unchanged, and
\* wordnet.synsets is not called for it.
C10_PreservedAndShortTokensKept ==
    (pc = "done" /\ trace = <<"synonyms">>) =>
        /\ Len(replaced_words) = Len(words)
        /\ \A i \in 1..Len(words) :
              (Lower(words[i]) \in preserve_terms \/ Len(words[i]) <= 4) =>
                  (replaced_words[i] = words[i] /\ words[i] \notin consulted)

\* the first candidate of the first synset of a word is shorter than the word
HasShorterSynonym(word) ==
    /\ synsets(word) # <<>>
    /\ SynonymsOf(word, synsets(word)[1]) # <<>>
    /\ Len(Shortest(SynonymsOf(word, synsets(word)[1]))) < Len(word)

\* a call has kept the preserve term 'function' and the four-letter word
\* 'help', for both of which WordNet lists a shorter synonym, and has
\* replaced 'automobile'
C10_Witness ==
    /\ pc = "done"
    /\ trace = <<"synonyms">>
    /\ words = <<W_FUNCTION, W_HELP, W_AUTOMOBILE>>
    /\ HasShorterSynonym(W_FUNCTION) /\ HasShorterSynonym(W_HELP)
    /\ replaced_words = <<W_FUNCTION, W_HELP, <<"c", "a", "r">>>>
    /\ consulted = {W_AUTOMOBILE}

----------------------------------------------------------------------------
(* Properties of calls made one after the other, checked under SpecRepeat. *)

\* C11: a call of minify with the same text and the same set of strategies
\* as the call that returned before it returns the same value, whatever
\* calls were made earlier on the minifier.
C11_SameCallSameResult ==
    (/\ pc = "done"
     /\ returned # <<>>
     /\ returned[1].text = text
     /\ TagsOf(returned[1].strategies) = TagsOf(strategies)) =>
        result = returned[1].result

\* the same document has been minified twice with syntax and stopwords, the
\* tags in a different order, and both calls changed it to the same text
C11_Witness ==
    /\ pc = "done"
    /\ returned # <<>>
    /\ returned[1].text = text
    /\ returned[1].strategies = <<"syntax", "stopwords">>
    /\ strategies = <<"stopwords", "syntax">>
    /\ Len(text) > 20
    /\ result # text
    /\ result = returned[1].result

----------------------------------------------------------------------------
(* The scenarios of the specification, checked under SpecScenario.         *)

\* C12: minify of '# Hello', blank line, 'This is **very** important,
\* please.' with the syntax stage alone returns 'Hello', blank line, 'This
\* is very important, please.': the heading marker and the asterisks are
\* gone and every other character is kept.
C12_HelloSyntax ==
    (pc = "done" /\ text = HelloText /\ trace = <<"syntax">>) =>
        result = <<"H", "e", "l", "l", "o", "\n", "\n", "T", "h", "i", "s", " ", "i",
          "s", " ", "v", "e", "r", "y", " ", "i", "m", "p", "o", "r", "t", "a",
          "n", "t", ",", " ", "p", "l", "e", "a", "s", "e", ".">>

\* the call of the scenario has returned a text of 38 characters for the 44
\* of the document
C12_Witness ==
    /\ pc = "done"
    /\ text = HelloText
    /\ strategies = <<"syntax">>
    /\ Len(text) = 44
    /\ Len(result) = 38

\* C13 as stated: the same document with syntax and simplify returns 'Hello
\* This is important.': 'very' and 'please' are removed and nothing is left
\* dangling before the final period.
C13_HelloSimplified ==
    (pc = "done" /\ text = HelloText /\ trace = <<"syntax", "simplify">>) =>
        result = <<"H", "e", "l", "l", "o", " ", "T", "h", "i", "s", " ", "i", "s", " ",
          "i", "m", "p", "o", "r", "t", "a", "n", "t", ".">>

\* C13 as amended: the same document with syntax and simplify returns 'Hello
\* This is important, please.': 'very' is removed, the newlines and the
\* doubled space collapse to single spaces, and ', please' stays, 'please'
\* being a stopword and not an alternative of a filler pattern.
C13_HelloSimplifiedKeepsPlease ==
    (pc = "done" /\ text = HelloText /\ trace = <<"syntax", "simplify">>) =>
        result = <<"H", "e", "l", "l", "o", " ", "T", "h", "i", "s", " ", "i", "s", " ",
          "i", "m", "p", "o", "r", "t", "a", "n", "t", ",", " ", "p", "l", "e",
          "a", "s", "e", ".">>

\* the call of the scenario with both stages has returned a text on one line
C13_Witness ==
    /\ pc = "done"
    /\ text = HelloText
    /\ strategies = <<"syntax", "simplify">>
    /\ trace = <<"syntax", "simplify">>
    /\ Len(result) = 32
    /\ \A i \in 1..Len(result) : result[i] # "\n"

\* C14: minify('The cat sat on the mat.', ['stopwords']) keeps the leading
\* token 'The' and the tokens 'cat', 'sat' and 'mat', and holds neither the
\* token 'on' nor a second 'the' in either case.
C14_CatSentence ==
    (pc = "done" /\ text = CatText /\ trace = <<"stopwords">>) =>
        LET out == Split(result)
        IN  /\ out # <<>> /\ out[1] = <<"T", "h", "e">>
            /\ {<<"c", "a", "t">>, <<"s", "a", "t">>, <<"m", "a", "t">>} \subseteq TagsOf(out)
            /\ <<"o", "n">> \notin TagsOf(out)
            /\ \A i \in 2..Len(out) : Lower(out[i]) # <<"t", "h", "e">>

\* the call of the scenario has returned 'The cat sat mat .'
C14_Witness ==
    /\ pc = "done"
    /\ text = CatText
    /\ strategies = <<"stopwords">>
    /\ result = <<"T", "h", "e", " ", "c", "a", "t", " ", "s", "a", "t", " ", "m", "a", "t", " ", ".">>

----------------------------------------------------------------------------
(* Properties of remove_stopwords, checked under SpecStopwords.            *)

\* C15: the output of remove_stopwords has one segment for every sentence of
\* the input that has a token, in the order of the sentences, and each
\* segment starts with the first token of its sentence as it was written,
\* stopword or not.
C15_FirstTokenKept ==
    (pc = "done" /\ trace = <<"stopwords">>) =>
        LET sentences == SelectSeq(sent_tokenize(text), LAMBDA x : word_tokenize(x) # <<>>)
            segments == CleanedSentences(sent_tokenize(text), stopwords)
        IN  /\ Len(segments) = Len(sentences)
            /\ \A i \in 1..Len(sentences) :
                  /\ Split(segments[i]) # <<>>
                  /\ Split(segments[i])[1] = word_tokenize(sentences[i])[1]
            /\ result = JoinSpace(segments)

\* a text of two sentences, the second of which is the stopword 'the' alone,
\* has come back with both sentences
C15_Witness ==
    /\ pc = "done"
    /\ trace = <<"stopwords">>
    /\ text = <<"s", "a", "t", ".", " ", "t", "h", "e">>
    /\ Len(sent_tokenize(text)) = 2
    /\ result = <<"s", "a", "t", " ", ".", " ", "t", "h", "e">>

----------------------------------------------------------------------------
(* Fenced code blocks, checked under SpecFence.                            *)

\* C16: strip_markdown_syntax removes the two delimiters of a fenced code
\* block and leaves every character of the body as it was: what comes back
\* is the body, up to the whitespace normalisation of the whole document
\* (runs of three newlines, leading and trailing whitespace).
C16_FenceBodyKept ==
    (pc = "done" /\ trace = <<"syntax">>) =>
        result = StrStrip(CollapseNewlines(FenceBody(text)))

----------------------------------------------------------------------------
(* Totality, checked under SpecTotal.                                      *)

\* a string: a finite sequence of characters
IsString(s) == DOMAIN s = 1..Len(s) /\ \A i \in 1..Len(s) : s[i] \in STRING

\* C17: on every document, malformed, whitespace-only or reduced to nothing,
\* and with every request, each step of a call under way goes on to the next
\* statement of minify, up to the return, and leaves a string in result: no
\* stage ends the call with an exception, and an empty result is a result.
C17_EveryCallReturns ==
    [][(pc \in Vocabulary) => (pc' = NextStage(pc) /\ IsString(result'))]_vars

\* a call with the three stages that tokenize or trim, on a whitespace-only
\* text, has returned the empty string
C17_Witness ==
    /\ pc = "done"
    /\ text = <<" ", "\n", " ">>
    /\ trace = <<"stopwords", "simplify", "synonyms">>
    /\ result = <<>>

----------------------------------------------------------------------------
(* The tables of the minifier, checked under SpecRepeat.                   *)

\* C18: whatever calls are made on a minifier, its stopword vocabulary, its
\* list of filler patterns (contents and order) and its preserve terms are
\* those __init__ built, and the vocabulary holds the added words 'please'
\* and 'kindly'.
C18_TablesNeverChange ==
    /\ stopwords = NltkStopwords \cup AddedStopwords
    /\ filler_patterns = FillerPatterns
    /\ preserve_terms = PreserveTerms
    /\ {<<"p", "l", "e", "a", "s", "e">>, <<"k", "i", "n", "d", "l", "y">>} \subseteq stopwords

\* a second call with all four stages has changed its text, after a first
\* call that ran all four stages too
C18_Witness ==
    /\ pc = "done"
    /\ returned # <<>>
    /\ TagsOf(returned[1].strategies) = Vocabulary
    /\ returned[1].result # returned[1].text
    /\ trace = CanonicalOrder
    /\ result # text
    /\ filler_patterns = <<FillerPhrases, FillerAdverbs, FillerIntensifiers>>
    /\ <<"p", "l", "e", "a", "s", "e">> \in stopwords

----------------------------------------------------------------------------
(* Calls made from several threads on one minifier, checked under          *)
(* SpecThreads.                                                            *)

\* C19: when calls of minify on different documents run at the same time on
\* one minifier, their statements interleaved in any way, every call has at
\* every point run the requested stages before that point, one after the
\* other in the order of minify, and holds what those stages make of its own
\* document when run alone; so it returns what it returns alone.
C19_ThreadsDoNotInterfere ==
    \A c \in Threads :
        threads[c].pc # "idle" =>
            LET before == CASE threads[c].pc = "syntax" -> 0
                            [] threads[c].pc = "stopwords" -> 1
                            [] threads[c].pc = "simplify" -> 2
                            [] threads[c].pc = "synonyms" -> 3
                            [] threads[c].pc = "done" -> 4
                plan == SelectSeq(SubSeq(CanonicalOrder, 1, before),
                                  LAMBDA tag : tag \in TagsOf(threads[c].strategies))
            IN  /\ threads[c].trace = plan
                /\ threads[c].result = Chained(threads[c].text, plan)

\* two calls on different documents are under way at once, one about to
\* return and the other between two stages, each with its own document
\* changed by the stages it ran
C19_Witness ==
    /\ threads[1].pc = "done"
    /\ threads[1].text = <<"*", "a", "*">>
    /\ threads[1].trace = CanonicalOrder
    /\ threads[1].result # threads[1].text
    /\ threads[2].pc = "simplify"
    /\ threads[2].text = CatText
    /\ threads[2].trace = <<"syntax", "stopwords">>
    /\ threads[2].result = <<"T", "h", "e", " ", "c", "a", "t", " ", "s", "a", "t", " ", "m", "a", "t", " ", ".">>
    /\ stopwords = NltkStopwords \cup AddedStopwords

----------------------------------------------------------------------------
(* The benchmark engine (scripts/benchmark.py): one MiniMarkBenchmark, its *)
(* minifier and its lazily loaded SemanticValidator.                       *)

\* the number of calls of benchmark_file on one MiniMarkBenchmark
MaxCalls == 3

\* STRATEGY_CONFIGS, in the order of the dictionary
STRATEGY_CONFIGS ==
    <<[name |-> "baseline", strategies |-> <<>>],
      [name |-> "syntax_only", strategies |-> <<"syntax">>],
      [name |-> "syntax_stopwords", strategies |-> <<"syntax", "stopwords">>],
      [name |-> "syntax_stopwords_simplify",
       strategies |-> <<"syntax", "stopwords", "simplify">>],
      [name |-> "all_strategies",
       strategies |-> <<"syntax", "stopwords", "simplify", "synonyms">>]>>

\* the contents of the files that exist
FileTexts == {CatText, <<"*", "a", "*">>}

\* file_path.name: the files of the model are told apart by their contents,
\* and the file that is not there has none
FileName(content) ==
    IF content = <<>> THEN "gone.md"
    ELSE IF content = CatText THEN "cat.md" ELSE "a.md"

\* what a step of benchmark_file never writes: the minifier and the calls of
\* minify modelled on their own
minifier_state ==
    <<tables, pc, text, strategies, result, trace, synonym_locals, returned, threads,
      directory>>

\* the call under way
ThisCall == calls[Len(calls)]

\* the call under way ends with an exception
Raise(exception) ==
    /\ calls' = [calls EXCEPT ![Len(calls)].raised = exception]
    /\ bench_pc' = "idle"
    /\ original_text' = <<>>
    /\ minified_text' = <<>>
    /\ strategy_index' = 0
    /\ results' = <<>>

\* def benchmark_file(self, file_path, validate_semantics): the file exists
\* or not, and holds some text if it does
BenchmarkFile ==
    /\ bench_pc = "idle"
    /\ Len(calls) < MaxCalls
    /\ \E exists \in BOOLEAN, content \in FileTexts, validate \in BOOLEAN :
          calls' = Append(calls, [file |-> FileName(IF exists THEN content ELSE <<>>),
                                  file_exists |-> exists,
                                  content |-> IF exists THEN content ELSE <<>>,
                                  validate_semantics |-> validate,
                                  constructed |-> FALSE,
                                  raised |-> "None"])
    /\ bench_pc' = "exists"
    /\ UNCHANGED <<validator, constructions, original_text, minified_text,
                   strategy_index, results, minifier_state>>

\* if not file_path.exists(): raise FileNotFoundError
IfNotExists ==
    /\ bench_pc = "exists"
    /\ IF ~ThisCall.file_exists
       THEN Raise("FileNotFoundError")
       ELSE /\ bench_pc' = "read"
            /\ UNCHANGED <<calls, original_text, minified_text, strategy_index, results>>
    /\ UNCHANGED <<validator, constructions, minifier_state>>

\* original_text = file_path.read_text(encoding='utf-8')
ReadText ==
    /\ bench_pc = "read"
    /\ original_text' = ThisCall.content
    /\ bench_pc' = "lazy"
    /\ UNCHANGED <<validator, constructions, calls, minified_text, strategy_index,
                   results, minifier_state>>

\* a variant that loads the model in every call that validates
LazyLoad_EveryCall ==
    /\ bench_pc = "lazy"
    /\ IF ThisCall.validate_semantics
       THEN /\ validator' = "SemanticValidator"
            /\ constructions' = constructions + 1
            /\ calls' = [calls EXCEPT ![Len(calls)].constructed = TRUE]
       ELSE UNCHANGED <<validator, constructions, calls>>
    /\ results' = <<>>
    /\ strategy_index' = 1
    /\ bench_pc' = "minify"
    /\ UNCHANGED <<original_text, minified_text, minifier_state>>

\* if validate_semantics and self.validator is None:
\*     self.validator = SemanticValidator()
\* results = []
LazyLoad ==
    /\ bench_pc = "lazy"
    /\ IF ThisCall.validate_semantics /\ validator = "None"
       THEN /\ validator' = "SemanticValidator"
            /\ constructions' = constructions + 1
            /\ calls' = [calls EXCEPT ![Len(calls)].constructed = TRUE]
       ELSE UNCHANGED <<validator, constructions, calls>>
    /\ results' = <<>>
    /\ strategy_index' = 1
    /\ bench_pc' = "minify"
    /\ UNCHANGED <<original_text, minified_text, minifier_state>>

\* SemanticValidator() raises while it loads the embedding model: nothing is
\* assigned to self.validator
LazyLoadRaises ==
    /\ bench_pc = "lazy"
    /\ ThisCall.validate_semantics /\ validator = "None"
    /\ Raise("SemanticValidator")
    /\ UNCHANGED <<validator, constructions, minifier_state>>

\* minified_text = self.minifier.minify(original_text, strategies): the
\* requested stages chained on the text
Minify ==
    /\ bench_pc = "minify"
    /\ minified_text' = Chained(original_text, STRATEGY_CONFIGS[strategy_index].strategies)
    /\ bench_pc' = "similarity"
    /\ UNCHANGED <<validator, constructions, calls, original_text, strategy_index,
                   results, minifier_state>>

\* similarity = None; if validate_semantics and strategy_name != 'baseline':
\* similarity = self.validator.compute_similarity(...); results.append(...);
\* then the next configuration, or the end of the loop
Similarity ==
    /\ bench_pc = "similarity"
    /\ LET name == STRATEGY_CONFIGS[strategy_index].name
           scored == ThisCall.validate_semantics /\ name # "baseline"
       IN  IF scored /\ validator = "None"
           THEN Raise("AttributeError")
           ELSE /\ results' = Append(results,
                       [file |-> ThisCall.file,
                        strategy |-> name,
                        semantic_similarity |-> IF scored THEN "float" ELSE "None",
                        original_chars |-> Len(original_text),
                        minified_chars |-> Len(minified_text)])
                /\ IF strategy_index < Len(STRATEGY_CONFIGS)
                   THEN strategy_index' = strategy_index + 1 /\ bench_pc' = "minify"
                   ELSE strategy_index' = strategy_index /\ bench_pc' = "return"
                /\ UNCHANGED <<calls, original_text, minified_text>>
    /\ UNCHANGED <<validator, constructions, minifier_state>>

\* return results
ReturnResults ==
    /\ bench_pc = "return"
    /\ bench_pc' = "idle"
    /\ original_text' = <<>>
    /\ minified_text' = <<>>
    /\ strategy_index' = 0
    /\ results' = <<>>
    /\ UNCHANGED <<validator, constructions, calls, minifier_state>>

NextBenchmark ==
    \/ BenchmarkFile
    \/ IfNotExists
    \/ ReadText
    \/ LazyLoad
    \/ LazyLoadRaises
    \/ Minify
    \/ Similarity
    \/ ReturnResults

SpecBenchmark == Init /\ [][NextBenchmark]_vars

\* the calls made so far that passed validate_semantics true
Validating == {i \in 1..Len(calls) : calls[i].validate_semantics}

\* the calls that constructed a SemanticValidator
Constructing == {i \in 1..Len(calls) : calls[i].constructed}

\* the validator is there or not, as counted, and it is there in the loop of
\* a call that validates, whatever minify did
ValidatorAsCounted ==
    /\ constructions = Cardinality(Constructing)
    /\ (validator = "SemanticValidator") <=> (constructions > 0)
    /\ (bench_pc \in {"minify", "similarity", "return"} /\ ThisCall.validate_semantics)
           => validator = "SemanticValidator"
    /\ \A i \in 1..Len(calls) : calls[i].raised # "AttributeError"

----------------------------------------------------------------------------
(* The rule of remove_stopwords for the tokens after the first, checked    *)
(* under SpecStopwords.                                                    *)

\* the tokens of one sentence that the rule keeps: the first, and every later
\* one that is not both a stopword when lower-cased and purely alphanumeric
KeptTokens(ws, stops) ==
    IF ws = <<>> THEN <<>>
    ELSE <<ws[1]>> \o SelectSeq(Tail(ws), LAMBDA w : ~(Lower(w) \in stops /\ IsAlnum(w)))

\* the kept tokens of the sentences given, one sentence after the other
RECURSIVE AllKeptTokens(_, _)
AllKeptTokens(sentences, stops) ==
    IF sentences = <<>> THEN <<>>
    ELSE KeptTokens(word_tokenize(Head(sentences)), stops)
             \o AllKeptTokens(Tail(sentences), stops)

\* C21: in remove_stopwords a token after the first of its sentence is
\* dropped if and only if its lower-cased form is in the stopword vocabulary
\* and the token is purely alphanumeric; every other token is kept, in its
\* place and in its case: the value returned is exactly the kept tokens of
\* the sentences, in order, as written.
C21_DroppedIffAlnumStopword ==
    (pc = "done" /\ trace = <<"stopwords">>) =>
        result = JoinSpace(AllKeptTokens(sent_tokenize(text), stopwords))

\* 'The' after the first token has been dropped whatever its case, and the
\* comma, which is no stopword and not alphanumeric, has been kept
C21_Witness ==
    /\ pc = "done"
    /\ trace = <<"stopwords">>
    /\ text = <<"c", "a", "t", ",", " ", "T", "h", "e">>
    /\ word_tokenize(text) = <<<<"c", "a", "t">>, <<",">>, <<"T", "h", "e">>>>
    /\ Lower(<<"T", "h", "e">>) \in stopwords
    /\ result = <<"c", "a", "t", " ", ",">>

----------------------------------------------------------------------------
(* The choice of replace_synonyms among the names WordNet lists, checked   *)
(* under SpecLookup.                                                       *)

\* the names of the first group of the lookup of a word, less the word itself
\* whatever its case; none if the lookup returns no group
Candidates(word) ==
    IF synsets(word) = <<>> THEN <<>>
    ELSE SelectSeq(synsets(word)[1], LAMBDA name : Lower(name) # Lower(word))

\* C22: for a token longer than 4 characters that is no preserve term,
\* replace_synonyms looks at the first group of the lookup only, leaves out
\* the names equal to the token but for case, and takes the shortest of the
\* rest, the earliest of equally short ones; the token is replaced by that
\* name, underscores turned into spaces, if the name is strictly shorter than
\* the token, and is emitted unchanged otherwise.
C22_ShortestOfFirstGroup ==
    (pc = "done" /\ trace = <<"synonyms">>) =>
        /\ Len(replaced_words) = Len(words)
        /\ result = JoinSpace(replaced_words)
        /\ \A i \in 1..Len(words) :
              (Len(words[i]) > 4 /\ Lower(words[i]) \notin preserve_terms) =>
                  LET word == words[i]
                      cands == Candidates(word)
                  IN  IF \A k \in 1..Len(cands) : Len(cands[k]) >= Len(word)
                      THEN replaced_words[i] = word
                      ELSE \E k \in 1..Len(cands) :
                              /\ \A j \in 1..Len(cands) : Len(cands[k]) <= Len(cands[j])
                              /\ \A j \in 1..(k - 1) : Len(cands[j]) > Len(cands[k])
                              /\ replaced_words[i] = UnderscoresToSpaces(cands[k])

\* 'youngster' has become 'kid', which WordNet lists before the equally short
\* 'fry'; 'purchase' is kept, 'buy' being a name of a later group only; and
\* 'occasionally' has become the two words 'at times'
C22_Witness ==
    /\ pc = "done"
    /\ trace = <<"synonyms">>
    /\ words = <<W_YOUNGSTER, W_PURCHASE, W_OCCASIONALLY>>
    /\ Len(synsets(W_PURCHASE)) > 1
    /\ Candidates(W_PURCHASE) = <<>>
    /\ result = <<"k", "i", "d", " ", "p", "u", "r", "c", "h", "a", "s", "e", " ", "a", "t", " ", "t", "i", "m", "e", "s">>

----------------------------------------------------------------------------
(* The whitespace that strip_markdown_syntax leaves, checked under         *)
(* SpecBlank.                                                              *)

\* C23: the output of strip_markdown_syntax has no three newline characters
\* in a row and neither starts nor ends with whitespace.
C23_NoBlankRunNoOuterSpace ==
    (pc = "done" /\ trace = <<"syntax">>) =>
        /\ \A i \in 1..(Len(result) - 2) :
              ~(result[i] = "\n" /\ result[i + 1] = "\n" /\ result[i + 2] = "\n")
        /\ result # <<>> => (~IsSpace(result[1]) /\ ~IsSpace(result[Len(result)]))

\* two paragraphs with a horizontal rule and a blank line between them have
\* come back with one blank line between them
C23_Witness ==
    /\ pc = "done"
    /\ trace = <<"syntax">>
    /\ text = <<"a", "\n", "-", "-", "-", "\n", "\n", "a">>
    /\ StripRules(text) = <<"a", "\n", "\n", "\n", "a">>
    /\ result = <<"a", "\n", "\n", "a">>

----------------------------------------------------------------------------
(* The spacing that simplify_sentences leaves, checked under SpecSpacing.  *)

\* the punctuation marks of the last substitution of simplify_sentences
ClausePunctuation == {".", ",", "!", "?"}

\* no two whitespace characters side by side, and none before a mark
TightSpacing(s) ==
    \A i \in 1..(Len(s) - 1) :
        IsSpace(s[i]) => (~IsSpace(s[i + 1]) /\ s[i + 1] \notin ClausePunctuation)

\* C24: the output of simplify_sentences has no newline and no tab, no two
\* whitespace characters side by side, no whitespace character right before
\* '.', ',', '!' or '?', and neither starts nor ends with whitespace.
C24_SimplifySpacing ==
    (pc = "done" /\ trace = <<"simplify">>) =>
        /\ \A i \in 1..Len(result) : result[i] \notin {"\n", "\t"}
        /\ TightSpacing(result)
        /\ result # <<>> => (~IsSpace(result[1]) /\ ~IsSpace(result[Len(result)]))

\* a filler after a tab, between a word and an exclamation mark, is gone
\* with the whitespace that was before it
C24_Witness ==
    /\ pc = "done"
    /\ trace = <<"simplify">>
    /\ text = <<"a", "\t", "v", "e", "r", "y", "!">>
    /\ RemoveFillers(text, filler_patterns) = <<"a", "\t", "!">>
    /\ result = <<"a", "!">>

----------------------------------------------------------------------------
(* Horizontal rules, checked under SpecRule.                               *)

\* the character at i belongs to a line made of three or more '-', '*' or '_'
\* and of nothing else
InRuleLine(s, i) == \E a \in 1..i : RuleEnd(s, a) > i

\* the number of characters c of a text that are outside its rule lines
CountOutsideRules(s, c) == Cardinality({i \in 1..Len(s) : s[i] = c /\ ~InRuleLine(s, i)})

\* C25: every line made only of three or more '-', '*' or '_' is removed
\* entirely by strip_markdown_syntax, whatever else the document holds: none
\* of its characters is in the output, so the output has no more '-', '*'
\* and '_' than the text has outside its rule lines.
C25_RuleLinesRemoved ==
    (pc = "done" /\ trace = <<"syntax">>) =>
        \A c \in {"-", "*", "_"} : Count(result, c) <= CountOutsideRules(text, c)

----------------------------------------------------------------------------
(* Inline links, checked under SpecLink.                                   *)

\* the characters of the syntax of a link
LinkSyntax == {"[", "]", "(", ")"}

\* C26: an inline link [label](url) whose label is not empty and holds no
\* ']' and whose url is not empty and holds no ')' is replaced as a whole by
\* its label: its brackets, its parentheses and its url are not in the
\* output; so on a text that has no bracket and no parenthesis but those of
\* the link, the output has none.
C26_LinkBecomesLabel ==
    (pc = "done" /\ trace = <<"syntax">>) =>
        \A i \in 1..Len(result) : result[i] \notin LinkSyntax

----------------------------------------------------------------------------
(* What strip_markdown_syntax may do to a text, checked under SpecSyntax.  *)

\* a from position i on is found, in order, in b from position j on
RECURSIVE EmbedsFrom(_, _, _, _)
EmbedsFrom(a, i, b, j) ==
    IF i > Len(a) THEN TRUE
    ELSE IF j > Len(b) THEN FALSE
    ELSE IF a[i] = b[j] THEN EmbedsFrom(a, i + 1, b, j + 1)
    ELSE EmbedsFrom(a, i, b, j + 1)

\* a is b with some characters deleted
IsSubsequence(a, b) == EmbedsFrom(a, 1, b, 1)

\* C27: strip_markdown_syntax only deletes characters: its output is the
\* text with some characters left out, the others in their order, none
\* inserted and none replaced by another.
C27_SyntaxOnlyDeletes ==
    (pc = "done" /\ trace = <<"syntax">>) => IsSubsequence(result, text)

\* an emphasised word followed by a link has come back as the word and the
\* label, four kinds of character of the text being gone
C27_Witness ==
    /\ pc = "done"
    /\ trace = <<"syntax">>
    /\ text = <<"*", "a", "*", "[", "a", "]", "(", "a", ")">>
    /\ result = <<"a", "a">>
    /\ IsSubsequence(result, text)
    /\ ~IsSubsequence(text, result)

----------------------------------------------------------------------------
(* The fillers that simplify_sentences leaves, checked under SpecFiller.   *)

\* p stands in s as whole words, whatever the case of its letters
OccursAsWords(s, p) ==
    \E i \in 1..(Len(s) - Len(p) + 1) :
        /\ Lower(SubSeq(s, i, i + Len(p) - 1)) = Lower(p)
        /\ AtWordBoundary(s, i)
        /\ AtWordBoundary(s, i + Len(p))

\* the filler has more than one word
IsPhrase(p) == \E k \in 1..Len(p) : p[k] = " "

\* C28 as stated: the output of simplify_sentences holds no whole-word
\* occurrence, in any case, of any alternative of the filler patterns, be it
\* one that only forms once another filler between its words is gone and the
\* whitespace is collapsed.
C28_NoFillerLeft ==
    (pc = "done" /\ trace = <<"simplify">>) =>
        \A k \in 1..Len(filler_patterns) : \A a \in 1..Len(filler_patterns[k]) :
            ~OccursAsWords(result, filler_patterns[k][a])

\* C28, amended: the output of simplify_sentences holds no whole-word
\* occurrence, in any case, of a filler of one word (the adverbs and the
\* intensifiers of the list); a phrase of several words may be left, where
\* its words only come together once a later filler or other whitespace
\* between them is gone.
C28_NoOneWordFillerLeft ==
    (pc = "done" /\ trace = <<"simplify">>) =>
        \A k \in 1..Len(filler_patterns) : \A a \in 1..Len(filler_patterns[k]) :
            ~IsPhrase(filler_patterns[k][a]) => ~OccursAsWords(result, filler_patterns[k][a])

\* 'I Very think', with the intensifier in capitals between the words of the
\* phrase, has come back as 'I think': the intensifier is gone and the phrase
\* is there
C28_Witness ==
    /\ pc = "done"
    /\ trace = <<"simplify">>
    /\ text = <<"I", " ", "V", "e", "r", "y", " ", "t", "h", "i", "n", "k">>
    /\ ~OccursAsWords(text, <<"I", " ", "t", "h", "i", "n", "k">>)
    /\ result = <<"I", " ", "t", "h", "i", "n", "k">>
    /\ OccursAsWords(result, <<"I", " ", "t", "h", "i", "n", "k">>)
    /\ ~OccursAsWords(result, <<"v", "e", "r", "y">>)

----------------------------------------------------------------------------
(* The spacing of the value minify returns when simplify is requested,     *)
(* checked under Spec.                                                     *)

\* no two whitespace characters side by side
NoDoubleSpace(s) == \A i \in 1..(Len(s) - 1) : ~(IsSpace(s[i]) /\ IsSpace(s[i + 1]))

\* C29 as stated: whenever simplify is among the requested stages, the value
\* minify returns has no whitespace right before '.', ',', '!' or '?' and no
\* two whitespace characters side by side, whatever stage runs after
\* simplify.
C29_SpacingSurvives ==
    (pc = "done" /\ Selected("simplify", strategies)) => TightSpacing(result)

\* C29, amended: whenever simplify is among the requested stages, the value
\* minify returns has no two whitespace characters side by side; it has no
\* whitespace right before '.', ',', '!' or '?' if synonyms is not requested.
C29_SpacingSurvivesWithoutSynonyms ==
    (pc = "done" /\ Selected("simplify", strategies)) =>
        /\ NoDoubleSpace(result)
        /\ ~Selected("synonyms", strategies) => TightSpacing(result)

\* simplify then synonyms on 'The cat. the': the full stop that simplify left
\* against its word has come back with a blank before it
C29_Witness ==
    /\ pc = "done"
    /\ text = <<"T", "h", "e", " ", "c", "a", "t", ".", " ", "t", "h", "e">>
    /\ trace = <<"simplify", "synonyms">>
    /\ simplify_sentences(text, filler_patterns) = text
    /\ result = <<"T", "h", "e", " ", "c", "a", "t", " ", ".", " ", "t", "h", "e">>
    /\ NoDoubleSpace(result)

----------------------------------------------------------------------------
(* MiniMarkBenchmark.benchmark_directory: every .md file of a directory is *)
(* handed to benchmark_file, and the rows it returns are collected.        *)

MaxFiles == 3

\* what directory.glob('*.md') can list: files with distinct names, one of
\* which is gone by the time it is opened
DirectoryFiles ==
    {[file_exists |-> TRUE, content |-> c] : c \in FileTexts}
        \cup {[file_exists |-> FALSE, content |-> <<>>]}

Listings ==
    {l \in ListsOf(DirectoryFiles, MaxFiles) :
        \A i, j \in 1..Len(l) : l[i] = l[j] => i = j}

\* md_files = list(directory.glob('*.md')); if not md_files: return;
\* all_results = []
BenchmarkDirectory ==
    /\ dir_pc = "idle"
    /\ bench_pc = "idle"
    /\ calls = <<>>
    /\ \E listing \in Listings, validate \in BOOLEAN :
          /\ md_files' = listing
          /\ validate_all' = validate
          /\ dir_pc' = IF listing = <<>> THEN "done" ELSE "for"
    /\ next_file' = 1
    /\ all_results' = <<>>
    /\ UNCHANGED <<tables, pc, text, strategies, result, trace, synonym_locals,
                   returned, threads, benchmark>>

\* for i, file_path in enumerate(md_files, 1):
\*     try: results = self.benchmark_file(file_path, validate_semantics)
ForFile ==
    /\ dir_pc = "for"
    /\ IF next_file <= Len(md_files)
       THEN /\ calls' = Append(calls,
                     [file |-> FileName(md_files[next_file].content),
                      file_exists |-> md_files[next_file].file_exists,
                      content |-> md_files[next_file].content,
                      validate_semantics |-> validate_all,
                      constructed |-> FALSE,
                      raised |-> "None"])
            /\ bench_pc' = "exists"
            /\ dir_pc' = "try"
       ELSE /\ dir_pc' = "write"
            /\ UNCHANGED <<calls, bench_pc>>
    /\ UNCHANGED <<validator, constructions, original_text, minified_text,
                   strategy_index, results, md_files, next_file, validate_all,
                   all_results, tables, pc, text, strategies, result, trace,
                   synonym_locals, returned, threads>>

\* original_text = file_path.read_text(encoding='utf-8') on a file that
\* cannot be read or decoded
ReadTextRaises ==
    /\ bench_pc = "read"
    /\ Raise("OSError")
    /\ UNCHANGED <<validator, constructions, minifier_state>>

\* self.count_tokens(minified_text) or self.validator.compute_similarity(...)
\* failing at the strategy the loop is at
StrategyRaises ==
    /\ bench_pc = "similarity"
    /\ \E exception \in {"TokenizerError"} \cup
             (IF ThisCall.validate_semantics
                    /\ STRATEGY_CONFIGS[strategy_index].name # "baseline"
                    /\ validator # "None"
              THEN {"ValidatorError"} ELSE {}) :
          Raise(exception)
    /\ UNCHANGED <<validator, constructions, minifier_state>>

\* all_results.extend(results), once benchmark_file has returned
ExtendResults ==
    /\ dir_pc = "try"
    /\ bench_pc = "return"
    /\ all_results' = all_results \o results
    /\ next_file' = next_file + 1
    /\ dir_pc' = "for"
    /\ bench_pc' = "idle"
    /\ original_text' = <<>>
    /\ minified_text' = <<>>
    /\ strategy_index' = 0
    /\ results' = <<>>
    /\ UNCHANGED <<validator, constructions, calls, md_files, validate_all,
                   tables, pc, text, strategies, result, trace, synonym_locals,
                   returned, threads>>

\* a variant of the handler that leaves the loop
ExceptContinue_Breaks ==
    /\ dir_pc = "try"
    /\ bench_pc = "idle"
    /\ dir_pc' = "write"
    /\ UNCHANGED <<md_files, next_file, validate_all, all_results, tables, pc,
                   text, strategies, result, trace, synonym_locals, returned,
                   threads, benchmark>>

\* except Exception as e: print(...); continue
ExceptContinue ==
    /\ dir_pc = "try"
    /\ bench_pc = "idle"
    /\ next_file' = next_file + 1
    /\ dir_pc' = "for"
    /\ UNCHANGED <<md_files, validate_all, all_results, tables, pc, text,
                   strategies, result, trace, synonym_locals, returned, threads,
                   benchmark>>

\* if all_results: the rows are written to the CSV file and summarised
WriteResults ==
    /\ dir_pc = "write"
    /\ dir_pc' = "done"
    /\ UNCHANGED <<md_files, next_file, validate_all, all_results, tables, pc,
                   text, strategies, result, trace, synonym_locals, returned,
                   threads, benchmark>>

NextDirectory ==
    \/ BenchmarkDirectory
    \/ ForFile
    \/ IfNotExists
    \/ ReadText
    \/ ReadTextRaises
    \/ LazyLoad
    \/ LazyLoadRaises
    \/ Minify
    \/ Similarity
    \/ StrategyRaises
    \/ ExtendResults
    \/ ExceptContinue
    \/ WriteResults

SpecDirectory == Init /\ [][NextDirectory]_vars

\* the rows of all_results that carry the name of the file
RowsOf(name) == SelectSeq(all_results, LAMBDA row : row.file = name)

\* one row per configured strategy, in the order of STRATEGY_CONFIGS
Complete(rows) ==
    /\ Len(rows) = Len(STRATEGY_CONFIGS)
    /\ \A k \in 1..Len(rows) : rows[k].strategy = STRATEGY_CONFIGS[k].name

LoopOver == dir_pc \in {"write", "done"} /\ md_files # <<>>

\* C30: a failure while benchmarking one file of the directory does not stop
\* the run. At every moment the collected results hold, of each listed file,
\* either no row or one row per configured strategy in configuration order;
\* and once the loop is over, benchmark_file has been called on every listed
\* file in turn, the files whose call raised have no row and the others have
\* all of theirs.
C30_AllRowsOrNoneAndRunGoesOn ==
    /\ \A i \in 1..Len(md_files) :
          LET rows == RowsOf(FileName(md_files[i].content))
          IN  rows = <<>> \/ Complete(rows)
    /\ LoopOver =>
          /\ Len(calls) = Len(md_files)
          /\ \A i \in 1..Len(md_files) :
                /\ calls[i].file = FileName(md_files[i].content)
                /\ IF calls[i].raised = "None"
                   THEN Complete(RowsOf(calls[i].file))
                   ELSE RowsOf(calls[i].file) = <<>>

\* three files were listed; the first was gone, the call on the second
\* failed in the validator at a strategy after the baseline, when rows of
\* that file were already in the local list, and the third file, benchmarked
\* after the two failures, has its five rows, the only ones collected
C30_Witness ==
    /\ dir_pc = "done"
    /\ Len(md_files) = 3
    /\ calls[1].raised = "FileNotFoundError"
    /\ calls[2].raised = "ValidatorError"
    /\ calls[3].raised = "None"
    /\ Complete(RowsOf(calls[3].file))
    /\ RowsOf(calls[2].file) = <<>>
    /\ Len(all_results) = Len(STRATEGY_CONFIGS)

====
